---------------------------- MODULE Spec2Model ----------------------------
(***************************************************************************)
(* A model of OSGenome's acquisition pipeline: the SNPedia crawl in its    *)
(* two implementations (services/crawler_service.py CrawlerService, driven *)
(* by cli.py, and data_crawler.py SNPCrawl), each in its concurrent and    *)
(* its sequential mode, the retry loop of one fetch, the page parser and   *)
(* the checkpoint writer of utils/file_utils.py; of three components of    *)
(* the serving side: the DataCache and load_json_paginated of              *)
(* utils/cache_manager.py, and flip_alleles; of the page parser applied to *)
(* one page; and of the enrichment run that joins the personal genotypes   *)
(* with the reference records.  Each component has its own variables and   *)
(* its own specification, which holds the others at rest.                  *)
(*                                                                         *)
(* The crawl has no clock: a sleep is a state the sleeper sits in, with    *)
(* the slept duration recorded, and a later step that wakes it.  The cache *)
(* reads a clock of whole seconds.                                         *)
(***************************************************************************)
EXTENDS Integers, Sequences, FiniteSets, TLC

VARIABLES
    impl,        \* "service" (CrawlerService via cli.py) or "legacy" (SNPCrawl)
    mode,        \* "async" or "sync"
    delay10,     \* config.REQUEST_DELAY in tenths of a second
    net,         \* the HTTP statuses the server may answer with in this run
    pages,       \* the pages the server may serve in this run
    script,      \* per scripted identifier, its response to each attempt
    rsids,       \* keys of the dict handed to the crawl, in dict order
    rsid_info,   \* self.rsid_info: the in-memory reference store
    disk,        \* data/results.json
    tmp,         \* data/results.json.tmp
    disk0,       \* results.json as it was before the crawl
    lastCkpt,    \* rsid_info as of the last checkpoint that completed
    nCkpt,       \* checkpoints completed in this crawl
    pc_main,     \* position of the crawl driver
    completed,   \* `completed` (async) / `count` (sync)
    delay_count, \* `delay_count` of the sequential loops
    saved_dc,    \* SNPCrawl.delay_count (self.delay_count)
    sem,         \* free slots of the asyncio.Semaphore
    task,        \* per identifier: position of its fetch and the loop's locals
    everReqPresent, \* a request was issued for a key the store already held
    writeFailed, \* a checkpoint write of this crawl failed
    \* utils/cache_manager.py, DataCache
    cache,       \* self._cache: the entries in dict (insertion) order
    hits,        \* self._hits
    misses,      \* self._misses
    now,         \* time.time(), in seconds
    last,        \* the last DataCache call: its name, key and return value
    getsHit,     \* get calls so far that returned a value
    getsMiss,    \* get calls so far that returned None
    hitsAtClear, \* getsHit as of the last clear()
    missAtClear, \* getsMiss as of the last clear()
    \* utils/cache_manager.py, load_json_paginated
    pg_data,     \* what load_json_lazy returned
    pg_page,     \* the argument `page`
    pg_size,     \* the argument `page_size`
    pg_out,      \* <<the dict load_json_paginated returned>>, <<>> before
    \* SNPService.flip_alleles / SNPCrawl.flip_alleles
    fl_impl,     \* "service" or "legacy"
    fl_genotype, \* the genotype string, as the sequence of its characters
    fl_orient,   \* the argument `stabilized_orientation`
    fl_out,      \* the results of the calls made so far, oldest first
    \* the page parser on its own
    ps_impl,     \* "service" (_parse_snpedia_page) or "legacy" (grab_table*)
    ps_rsid,     \* the identifier the page was fetched for
    ps_page,     \* the page
    ps_out,      \* <<what the parse left behind>>, <<>> before
    \* enrichment: cli.process_results / SNPCrawl.create_list
    en_impl,         \* "service" or "legacy"
    en_personal,     \* data/personal_snps.json, in dict order
    en_rsid_info,    \* data/results.json, in dict order
    en_enriched,     \* SNPCrawl.enriched_snps
    en_read,         \* <<the two stores as the last run read them>>
    en_rsid_list,    \* the records the last run computed, in order
    en_result_table, \* data/result_table.json
    en_runs,         \* enrichment runs so far
    \* DataCache shared by threads
    th_max,      \* self._max_size
    th_cache,    \* self._cache
    th_hits,     \* self._hits
    th_misses,   \* self._misses
    th_lock,     \* the thread inside `with self._lock`, "" when it is free
    th_pc,       \* per thread: its call, its position in it, its locals
    th_calls,    \* per thread: the calls it has made
    th_now,      \* time.time(), in seconds
    th_gets,     \* get calls completed since the last clear()
    th_stats,    \* <<the last get_stats result and the state it was taken in>>
    \* load_json_lazy / invalidate_cache on one file
    lz_file,     \* the content of the file
    lz_cache,    \* <<the data cached under "json:<file>">>, <<>> when none
    lz_pc,       \* per loader: its position, what it read, what it returned
    lz_writer    \* position of the thread that rewrites the file

crawlVars == << impl, mode, delay10, net, pages, script, rsids, rsid_info,
                disk, tmp, disk0, lastCkpt, nCkpt, pc_main, completed,
                delay_count, saved_dc, sem, task, everReqPresent,
                writeFailed >>
cacheVars == << cache, hits, misses, now, last, getsHit, getsMiss,
               hitsAtClear, missAtClear >>
pageVars == << pg_data, pg_page, pg_size, pg_out >>
flipVars == << fl_impl, fl_genotype, fl_orient, fl_out >>
parseVars == << ps_impl, ps_rsid, ps_page, ps_out >>
enrichVars == << en_impl, en_personal, en_rsid_info, en_enriched, en_read,
                 en_rsid_list, en_result_table, en_runs >>

threadVars == << th_max, th_cache, th_hits, th_misses, th_lock, th_pc,
                 th_calls, th_now, th_gets, th_stats >>

lazyVars == << lz_file, lz_cache, lz_pc, lz_writer >>

vars == << crawlVars, cacheVars, pageVars, flipVars, parseVars, enrichVars,
           threadVars, lazyVars >>

(***************************************************************************)
(* Configuration (core/config.py).  The values are read from the           *)
(* environment; MAX_RETRIES and RETRY_DELAY are the defaults, and          *)
(* SAVE_PROGRESS_INTERVAL is set to 2 so that a crawl of a few identifiers *)
(* reaches a checkpoint.                                                   *)
(***************************************************************************)
MAX_RETRIES == 3
RETRY_DELAY == 5
SAVE_PROGRESS_INTERVAL == 2

Max(a, b) == IF a >= b THEN a ELSE b
Min(a, b) == IF a <= b THEN a ELSE b

RECURSIVE Pow2(_)
Pow2(n) == IF n = 0 THEN 1 ELSE 2 * Pow2(n - 1)

(***************************************************************************)
(* Identifiers.  str.lower() on the identifiers of the model.              *)
(***************************************************************************)
Lower(r) == IF r = "Rs3" THEN "rs3" ELSE r

(***************************************************************************)
(* The store: a dict from keys to records.                                 *)
(***************************************************************************)
EmptyStore == [k \in {} |-> 0]

Put(st, k, v) == [x \in (DOMAIN st) \cup {k} |-> IF x = k THEN v ELSE st[x]]

DefaultEntry == [Description |-> "", Variations |-> <<>>,
                 StabilizedOrientation |-> ""]

(***************************************************************************)
(* Pages.  A page is what BeautifulSoup finds in it: the orientation       *)
(* marker ("td": the Rs_StabilizedOrientation cell, "link": only the       *)
(* titled link, "none"), whether a "plus" / "minus" cell stands in the     *)
(* structure enclosing the marker, the description block and the sortable  *)
(* table.  A table is the sequence of its <tr> rows, a row the sequence of *)
(* the stripped texts of its <td> cells (a header row of <th> cells has    *)
(* none).                                                                  *)
(***************************************************************************)
NoTable == [found |-> FALSE, rows |-> <<>>]

PageGood == [marker |-> "td", plus |-> TRUE, minus |-> FALSE,
             desc  |-> [found |-> TRUE, rows |-> << <<"d">> >>],
             table |-> [found |-> TRUE,
                        rows |-> << <<>>, <<"(A;G)", "s1", "common">>,
                                    <<"(G;G)", "s2", "rare">> >>]]

PageBare == [marker |-> "none", plus |-> FALSE, minus |-> FALSE,
             desc |-> NoTable, table |-> NoTable]

PageEmptyDesc == [marker |-> "link", plus |-> FALSE, minus |-> TRUE,
                  desc  |-> [found |-> TRUE, rows |-> << <<"">> >>],
                  table |-> NoTable]

CrawlPages == {PageGood, PageBare, PageEmptyDesc}

\* _parse_table / table_to_list
FilterCells(row) == SelectSeq(row, LAMBDA c : c # "")

TableToList(rows) ==
    LET F[i \in 0..Len(rows)] ==
            IF i = 0 THEN <<>>
            ELSE IF rows[i] # <<>> /\ FilterCells(rows[i]) # <<>>
                 THEN Append(F[i - 1], FilterCells(rows[i]))
                 ELSE F[i - 1]
    IN  F[Len(rows)]

\* list[1:]
DropFirst(l) == IF l = <<>> THEN <<>> ELSE Tail(l)

\* CrawlerService._parse_snpedia_page: the record it builds
ParseSnpediaPage(p) ==
    LET orient == IF p.marker \in {"td", "link"}
                  THEN IF p.plus THEN "plus"
                       ELSE IF p.minus THEN "minus" ELSE ""
                  ELSE ""
        dl == TableToList(p.desc.rows)
        vl == TableToList(p.table.rows)
    IN  [Description |-> IF p.desc.found /\ Len(dl) > 0 /\ Len(dl[1]) > 0
                         THEN dl[1][1] ELSE "",
         Variations  |-> IF p.table.found /\ Len(vl) > 1
                         THEN DropFirst(vl) ELSE <<>>,
         StabilizedOrientation |-> orient]


\* SNPCrawl.grab_table / grab_table_async, the part after response.read():
\* the store it leaves and whether it raised on the way.  The record is
\* stored under rsid.lower() first and then filled in through rsid.
ParseLegacy(st, r, p) ==
    LET s1 == Put(st, Lower(r), DefaultEntry)
        orient == IF p.marker \in {"td", "link"}
                  THEN IF p.minus THEN "minus"
                       ELSE IF p.plus THEN "plus" ELSE ""
                  ELSE ""
        s2 == [s1 EXCEPT ![r].StabilizedOrientation = orient]
        d1 == TableToList(p.desc.rows)
        s3 == IF p.desc.found
              THEN [s2 EXCEPT ![r].Description = d1[1][1]] ELSE s2
        d2 == TableToList(p.table.rows)
        s4 == IF p.table.found
              THEN [s3 EXCEPT ![r].Variations = DropFirst(d2)] ELSE s3
    IN  IF r \notin DOMAIN s1
        THEN [store |-> s1, raised |-> TRUE]           \* KeyError
        ELSE IF p.desc.found /\ d1 = <<>>
        THEN [store |-> s2, raised |-> TRUE]           \* IndexError
        ELSE [store |-> s4, raised |-> FALSE]

(***************************************************************************)
(* One attempt of a fetch.  A status of 0 stands for an attempt that ended *)
(* without a response (connection error, timeout).                         *)
(***************************************************************************)
Statuses == {0, 200, 404, 429, 500, 502, 503, 504}

\* a variant that does not single out 404
NotFoundNever(s) == FALSE

NotFound(s) == s = 404
RateLimited(s) == s = 429
ServerUnavailable(s) == s \in {502, 503, 504}

\* a variant that compares with MAX_RETRIES instead of MAX_RETRIES - 1
RetryOrAbandonOffByOne(a, d, st) ==
    IF a < MAX_RETRIES
    THEN [kind |-> "retry", delay |-> d, store |-> st]
    ELSE [kind |-> "abandoned", delay |-> 0, store |-> st]

\* `if attempt < MAX_RETRIES - 1: sleep(d)`, else the loop is left
RetryOrAbandon(a, d, st) ==
    IF a < MAX_RETRIES - 1
    THEN [kind |-> "retry", delay |-> d, store |-> st]
    ELSE [kind |-> "abandoned", delay |-> 0, store |-> st]

\* a variant that backs off exponentially after every failure
BackoffAsyncAlwaysExp(s, a) == RETRY_DELAY * Pow2(a)

\* the delay the concurrent fetch sleeps after attempt a ended with status s
BackoffAsync(s, a) ==
    IF RateLimited(s) \/ ServerUnavailable(s)
    THEN RETRY_DELAY * Pow2(a)
    ELSE RETRY_DELAY

\* the delay the sequential fetch sleeps after attempt a ended with status s
BackoffSync(s, a) ==
    IF RateLimited(s) THEN RETRY_DELAY * (a + 1) ELSE RETRY_DELAY

\* CrawlerService._fetch_rsid_async, one pass of its loop body
FetchRsidAsync(st, r, a, s, p) ==
    IF NotFound(s) THEN [kind |-> "notfound", delay |-> 0, store |-> st]
    ELSE IF s = 200
    THEN [kind |-> "stored", delay |-> 0,
          store |-> Put(st, Lower(r), ParseSnpediaPage(p))]
    ELSE RetryOrAbandon(a, BackoffAsync(s, a), st)

\* CrawlerService._fetch_rsid_sync, one pass of its loop body
FetchRsidSync(st, r, a, s, p) ==
    IF NotFound(s) THEN [kind |-> "notfound", delay |-> 0, store |-> st]
    ELSE IF s = 200
    THEN [kind |-> "stored", delay |-> 0,
          store |-> Put(st, Lower(r), ParseSnpediaPage(p))]
    ELSE RetryOrAbandon(a, BackoffSync(s, a), st)

\* SNPCrawl.grab_table_async, one pass of its loop body
GrabTableAsync(st, r, a, s, p) ==
    IF NotFound(s) THEN [kind |-> "notfound", delay |-> 0, store |-> st]
    ELSE IF s = 200
    THEN LET res == ParseLegacy(st, r, p)
         IN  IF res.raised
             THEN RetryOrAbandon(a, RETRY_DELAY, res.store)
             ELSE [kind |-> "stored", delay |-> 0, store |-> res.store]
    ELSE RetryOrAbandon(a, BackoffAsync(s, a), st)

\* SNPCrawl.grab_table, one pass of its loop body
GrabTable(st, r, a, s, p) ==
    IF NotFound(s) THEN [kind |-> "notfound", delay |-> 0, store |-> st]
    ELSE IF s = 200
    THEN LET res == ParseLegacy(st, r, p)
         IN  IF res.raised
             THEN RetryOrAbandon(a, RETRY_DELAY, res.store)
             ELSE [kind |-> "stored", delay |-> 0, store |-> res.store]
    ELSE RetryOrAbandon(a, BackoffSync(s, a), st)

Attempt(st, r, a, s, p) ==
    CASE impl = "service" /\ mode = "async" -> FetchRsidAsync(st, r, a, s, p)
      [] impl = "service" /\ mode = "sync"  -> FetchRsidSync(st, r, a, s, p)
      [] impl = "legacy"  /\ mode = "async" -> GrabTableAsync(st, r, a, s, p)
      [] impl = "legacy"  /\ mode = "sync"  -> GrabTable(st, r, a, s, p)

(***************************************************************************)
(* Files.  A file is absent, opened for writing and not yet complete       *)
(* ("partial"), or complete with the store that was dumped into it.        *)
(***************************************************************************)
Absent == [st |-> "absent", data |-> EmptyStore]
Partial == [st |-> "partial", data |-> EmptyStore]
FileOf(store) == [st |-> "complete", data |-> store]

(***************************************************************************)
(* The components at rest: a specification of one component holds the      *)
(* others in these states.                                                 *)
(***************************************************************************)
CacheIdle ==
    /\ cache = <<>> /\ hits = 0 /\ misses = 0 /\ now = 0
    /\ last = [op |-> "none", key |-> "", ret |-> "None", path |-> ""]
    /\ getsHit = 0 /\ getsMiss = 0 /\ hitsAtClear = 0 /\ missAtClear = 0

PageIdle ==
    /\ pg_data = [kind |-> "None", items |-> <<>>]
    /\ pg_page = 1 /\ pg_size = 1 /\ pg_out = <<>>

FlipIdle ==
    fl_impl = "service" /\ fl_genotype = <<>> /\ fl_orient = ""
    /\ fl_out = <<>>

ParseIdle ==
    /\ ps_impl = "service" /\ ps_rsid = "" /\ ps_page = PageBare
    /\ ps_out = <<>>

EnrichIdle ==
    /\ en_impl = "service" /\ en_personal = <<>> /\ en_rsid_info = <<>>
    /\ en_enriched = <<>> /\ en_read = <<>> /\ en_rsid_list = <<>>
    /\ en_result_table = <<>> /\ en_runs = 0

ThreadIdle ==
    /\ th_max = 1 /\ th_cache = <<>> /\ th_hits = 0 /\ th_misses = 0
    /\ th_lock = "" /\ th_pc = <<>> /\ th_calls = 0 /\ th_now = 0
    /\ th_gets = 0 /\ th_stats = <<>>

LazyIdle ==
    lz_file = 0 /\ lz_cache = <<>> /\ lz_pc = <<>> /\ lz_writer = "idle"

(***************************************************************************)
(* The crawl drivers.                                                      *)
(***************************************************************************)
\* max_concurrent = max(3, min(5, int(5 * REQUEST_DELAY))), REQUEST_DELAY
\* given in tenths of a second; int() truncates toward zero.
MaxConcurrent(d10) == Max(3, Min(5, (5 * d10) \div 10))

\* cli._get_missing_rsids: the personal identifiers whose lower-case form is
\* not a key of results.json, in their order
GetMissingRsids(personal, existing) ==
    SelectSeq(personal,
              LAMBDA r : Lower(r) \notin {Lower(k) : k \in DOMAIN existing})

NewTask == [pc |-> "pending", attempt |-> 0, status |-> 0, delay |-> 0,
            nreq |-> 0, result |-> "none"]

Tasks == 1..Len(rsids)

\* tasks inside `async with semaphore`
Holders == {t \in Tasks : task[t].pc \in {"request", "backoff", "pacing"}}

\* `completed % SAVE_PROGRESS_INTERVAL == 0` of the concurrent drivers
CheckpointDueAsync(n) == n > 0 /\ n % SAVE_PROGRESS_INTERVAL = 0

\* the checkpoint condition of CrawlerService.crawl_snps_sync
CheckpointDueSync(dc) == dc > 0 /\ dc % SAVE_PROGRESS_INTERVAL = 0

\* the checkpoint condition of SNPCrawl.sync_crawl
CheckpointDueLegacySync(dc, saved) ==
    dc > 0 /\ dc % SAVE_PROGRESS_INTERVAL = 0 /\ dc # saved

\* a variant that lets every task in
SlotFreeAlways(n) == TRUE

\* a variant whose slots are never handed out
SlotFreeNever(n) == FALSE

\* the semaphore lets a task in while a slot is free
SlotFree(n) == n > 0

\* _fetch_rsid_with_semaphore / fetch_rsid_with_semaphore up to the first
\* await of the fetch: take a slot, return at once for a key already in the
\* store, else issue the first request
FetchRsidWithSemaphore(t) ==
    /\ mode = "async" /\ pc_main = "run"
    /\ task[t].pc = "pending"
    /\ SlotFree(sem)
    /\ sem' = sem - 1
    /\ task' = [task EXCEPT ![t] =
                  IF rsids[t] \in DOMAIN rsid_info
                  THEN [@ EXCEPT !.pc = "pacing", !.result = "skipped"]
                  ELSE [@ EXCEPT !.pc = "request", !.nreq = 1]]
    /\ UNCHANGED << impl, mode, delay10, net, pages, script, rsids,
                    rsid_info, disk, tmp, disk0, lastCkpt, nCkpt, pc_main,
                    completed, delay_count, saved_dc, everReqPresent,
                    writeFailed >>
    /\ UNCHANGED << cacheVars, pageVars, flipVars, parseVars, enrichVars,
                    threadVars, lazyVars >>

\* the sequential loops up to the first request of the current identifier:
\* count it if it is new, sleep REQUEST_DELAY, enter the fetch
SyncStart(t) ==
    /\ mode = "sync" /\ pc_main = "run"
    /\ t = completed + 1
    /\ task[t].pc = "pending"
    /\ delay_count' = IF rsids[t] \notin DOMAIN rsid_info
                      THEN delay_count + 1 ELSE delay_count
    /\ task' = [task EXCEPT ![t] =
                  IF rsids[t] \in DOMAIN rsid_info
                  THEN [@ EXCEPT !.pc = "done", !.result = "skipped"]
                  ELSE [@ EXCEPT !.pc = "request", !.nreq = 1]]
    /\ UNCHANGED << impl, mode, delay10, net, pages, script, rsids,
                    rsid_info, disk, tmp, disk0, lastCkpt, nCkpt, pc_main,
                    completed, saved_dc, sem, everReqPresent, writeFailed >>
    /\ UNCHANGED << cacheVars, pageVars, flipVars, parseVars, enrichVars,
                    threadVars, lazyVars >>

\* the responses the server may give to attempt a for identifier r: the
\* scripted one if the run scripts r, else any status of `net`, with any
\* page of `pages` under a 200
Unscripted == [r \in {} |-> <<>>]

Served(r, a) ==
    IF r \in DOMAIN script
    THEN {script[r][a + 1]}
    ELSE UNION {{[status |-> s, page |-> p] :
                    p \in IF s = 200 THEN pages ELSE {PageBare}} : s \in net}

\* the response to the request in flight arrives and the loop body handles it
Response(t) ==
    /\ pc_main = "run"
    /\ task[t].pc = "request"
    /\ \E resp \in Served(rsids[t], task[t].attempt) :
          LET s == resp.status
              p == resp.page
              v == Attempt(rsid_info, rsids[t], task[t].attempt, s, p)
          IN  /\ rsid_info' = v.store
              /\ task' = [task EXCEPT ![t] =
                   IF v.kind = "retry"
                   THEN [@ EXCEPT !.pc = "backoff", !.status = s,
                                  !.delay = v.delay]
                   ELSE [@ EXCEPT !.pc = IF mode = "async" THEN "pacing"
                                         ELSE "done",
                                  !.status = s, !.result = v.kind]]
    /\ UNCHANGED << impl, mode, delay10, net, pages, script, rsids, disk,
                    tmp, disk0, lastCkpt, nCkpt, pc_main, completed,
                    delay_count, saved_dc, sem, everReqPresent,
                    writeFailed >>
    /\ UNCHANGED << cacheVars, pageVars, flipVars, parseVars, enrichVars,
                    threadVars, lazyVars >>

\* the retry sleep ends and the next pass of the loop issues its request
Retry(t) ==
    /\ pc_main = "run"
    /\ task[t].pc = "backoff"
    /\ task' = [task EXCEPT ![t] =
                  [@ EXCEPT !.pc = "request", !.attempt = @ + 1,
                            !.nreq = @ + 1, !.status = 0, !.delay = 0]]
    /\ everReqPresent' = (everReqPresent \/ rsids[t] \in DOMAIN rsid_info)
    /\ UNCHANGED << impl, mode, delay10, net, pages, script, rsids,
                    rsid_info, disk, tmp, disk0, lastCkpt, nCkpt, pc_main,
                    completed, delay_count, saved_dc, sem, writeFailed >>
    /\ UNCHANGED << cacheVars, pageVars, flipVars, parseVars, enrichVars,
                    threadVars, lazyVars >>

\* the pacing sleep inside `async with semaphore` ends: the slot is released
Release(t) ==
    /\ pc_main = "run"
    /\ task[t].pc = "pacing"
    /\ sem' = sem + 1
    /\ task' = [task EXCEPT ![t].pc = "done"]
    /\ UNCHANGED << impl, mode, delay10, net, pages, script, rsids,
                    rsid_info, disk, tmp, disk0, lastCkpt, nCkpt, pc_main,
                    completed, delay_count, saved_dc, everReqPresent,
                    writeFailed >>
    /\ UNCHANGED << cacheVars, pageVars, flipVars, parseVars, enrichVars,
                    threadVars, lazyVars >>

\* crawl_snps_async / async_crawl: one pass of `for coro in as_completed`
AsyncComplete(t) ==
    /\ mode = "async" /\ pc_main = "run"
    /\ task[t].pc = "done"
    /\ task' = [task EXCEPT ![t].pc = "counted"]
    /\ completed' = completed + 1
    /\ pc_main' = IF CheckpointDueAsync(completed + 1) THEN "export" ELSE "run"
    /\ UNCHANGED << impl, mode, delay10, net, pages, script, rsids,
                    rsid_info, disk, tmp, disk0, lastCkpt, nCkpt,
                    delay_count, saved_dc, sem, everReqPresent,
                    writeFailed >>
    /\ UNCHANGED << cacheVars, pageVars, flipVars, parseVars, enrichVars,
                    threadVars, lazyVars >>

\* crawl_snps_sync / sync_crawl: the rest of the loop body after the fetch
SyncComplete(t) ==
    /\ mode = "sync" /\ pc_main = "run"
    /\ task[t].pc = "done"
    /\ task' = [task EXCEPT ![t].pc = "counted"]
    /\ completed' = completed + 1
    /\ LET due == IF impl = "service"
                  THEN CheckpointDueSync(delay_count)
                  ELSE CheckpointDueLegacySync(delay_count, saved_dc)
       IN  /\ pc_main' = IF due THEN "export" ELSE "run"
           /\ saved_dc' = IF impl = "legacy" /\ due THEN delay_count
                          ELSE saved_dc
    /\ UNCHANGED << impl, mode, delay10, net, pages, script, rsids,
                    rsid_info, disk, tmp, disk0, lastCkpt, nCkpt,
                    delay_count, sem, everReqPresent, writeFailed >>
    /\ UNCHANGED << cacheVars, pageVars, flipVars, parseVars, enrichVars,
                    threadVars, lazyVars >>

\* the loop is over: CrawlerService returns the store; SNPCrawl.__init__ goes
\* on to self.export()
CrawlReturn ==
    /\ pc_main = "run"
    /\ \A t \in Tasks : task[t].pc = "counted"
    /\ pc_main' = IF impl = "legacy" THEN "fexport" ELSE "returned"
    /\ UNCHANGED << impl, mode, delay10, net, pages, script, rsids,
                    rsid_info, disk, tmp, disk0, lastCkpt, nCkpt, completed,
                    delay_count, saved_dc, sem, task, everReqPresent,
                    writeFailed >>
    /\ UNCHANGED << cacheVars, pageVars, flipVars, parseVars, enrichVars,
                    threadVars, lazyVars >>

(***************************************************************************)
(* The checkpoint: _export_results / export and export_to_file.  The write *)
(* is split where an interrupt or a crash can fall: after the temporary    *)
(* file is opened, and after it is written and closed.                     *)
(***************************************************************************)
Exporting == pc_main \in {"export", "fexport"}
IsFinal == pc_main \in {"fexport", "fopened", "fdumped"}
AfterExport == IF IsFinal THEN "returned" ELSE "run"

\* a variant that opens the target itself for writing
OpenTargetInPlace(d, t) == [disk |-> Partial, tmp |-> t]

\* export_to_file opens <file>.tmp for writing
OpenTarget(d, t) == [disk |-> d, tmp |-> Partial]

\* _export_results / export: nothing is written for an empty store
ExportOpen ==
    /\ Exporting
    /\ IF rsid_info = EmptyStore
       THEN /\ pc_main' = AfterExport
            /\ UNCHANGED << disk, tmp >>
       ELSE /\ pc_main' = IF IsFinal THEN "fopened" ELSE "opened"
            /\ disk' = OpenTarget(disk, tmp).disk
            /\ tmp' = OpenTarget(disk, tmp).tmp
    /\ UNCHANGED << impl, mode, delay10, net, pages, script, rsids,
                    rsid_info, disk0, lastCkpt, nCkpt, completed,
                    delay_count, saved_dc, sem, task, everReqPresent,
                    writeFailed >>
    /\ UNCHANGED << cacheVars, pageVars, flipVars, parseVars, enrichVars,
                    threadVars, lazyVars >>

\* json.dump into the temporary file, and the file is closed
ExportDump ==
    /\ pc_main \in {"opened", "fopened"}
    /\ tmp' = FileOf(rsid_info)
    /\ pc_main' = IF IsFinal THEN "fdumped" ELSE "dumped"
    /\ UNCHANGED << impl, mode, delay10, net, pages, script, rsids,
                    rsid_info, disk, disk0, lastCkpt, nCkpt, completed,
                    delay_count, saved_dc, sem, task, everReqPresent,
                    writeFailed >>
    /\ UNCHANGED << cacheVars, pageVars, flipVars, parseVars, enrichVars,
                    threadVars, lazyVars >>

\* os.replace(temp_filepath, filepath)
ExportReplace ==
    /\ pc_main \in {"dumped", "fdumped"}
    /\ disk' = tmp
    /\ tmp' = Absent
    /\ lastCkpt' = rsid_info
    /\ nCkpt' = nCkpt + 1
    /\ pc_main' = AfterExport
    /\ UNCHANGED << impl, mode, delay10, net, pages, script, rsids,
                    rsid_info, disk0, completed, delay_count, saved_dc, sem,
                    task, everReqPresent, writeFailed >>
    /\ UNCHANGED << cacheVars, pageVars, flipVars, parseVars, enrichVars,
                    threadVars, lazyVars >>

\* an OSError while writing or renaming: the temporary file is removed and
\* export_to_file returns False
ExportFail ==
    /\ pc_main \in {"opened", "fopened", "dumped", "fdumped"}
    /\ tmp' = Absent
    /\ writeFailed' = TRUE
    /\ pc_main' = AfterExport
    /\ UNCHANGED << impl, mode, delay10, net, pages, script, rsids,
                    rsid_info, disk, disk0, lastCkpt, nCkpt, completed,
                    delay_count, saved_dc, sem, task, everReqPresent >>
    /\ UNCHANGED << cacheVars, pageVars, flipVars, parseVars, enrichVars,
                    threadVars, lazyVars >>

\* an interrupt or a crash of the process in the middle of the write
Crash ==
    /\ pc_main \in {"opened", "fopened", "dumped", "fdumped"}
    /\ pc_main' = "crashed"
    /\ UNCHANGED << impl, mode, delay10, net, pages, script, rsids,
                    rsid_info, disk, tmp, disk0, lastCkpt, nCkpt, completed,
                    delay_count, saved_dc, sem, task, everReqPresent,
                    writeFailed >>
    /\ UNCHANGED << cacheVars, pageVars, flipVars, parseVars, enrichVars,
                    threadVars, lazyVars >>

(***************************************************************************)
(* Initial states: the store a previous crawl left in results.json, the    *)
(* personal identifiers in the order of personal_snps.json, and the        *)
(* configuration.  cli.crawl_snpedia hands CrawlerService the missing      *)
(* identifiers only; SNPCrawl.__init__ crawls all personal identifiers.    *)
(***************************************************************************)
OldEntry == [Description |-> "old", Variations |-> <<>>,
             StabilizedOrientation |-> "plus"]

StoreOf(keys) == [k \in keys |-> OldEntry]

InitStores == {StoreOf({}), StoreOf({"rs1"}), StoreOf({"rs1", "rs2"}),
               StoreOf({"rs3"})}

Personals == {<<"rs1">>, <<"rs1", "rs2">>, <<"Rs3", "rs1">>, <<"rs2", "Rs3">>}

RequestDelays == {0, 8, 25}

\* the server answers with any status, or rate-limits every request
Nets == {Statuses, {429}}

InitWith(personals, stores, delays, nets, served, scripts, impls, modes) ==
    /\ impl \in impls
    /\ mode \in modes
    /\ delay10 \in delays
    /\ net \in nets
    /\ pages = served
    /\ script \in scripts
    /\ disk0 \in stores
    /\ \E personal \in personals :
          rsids = IF impl = "service" THEN GetMissingRsids(personal, disk0)
                  ELSE personal
    /\ rsid_info = disk0
    /\ disk = FileOf(disk0)
    /\ tmp = Absent
    /\ lastCkpt = disk0
    /\ nCkpt = 0
    /\ pc_main = "run"
    /\ completed = 0
    /\ delay_count = 0
    /\ saved_dc = 0
    /\ sem = MaxConcurrent(delay10)
    /\ task = [t \in 1..Len(rsids) |-> NewTask]
    /\ everReqPresent = FALSE
    /\ writeFailed = FALSE
    /\ CacheIdle /\ PageIdle /\ FlipIdle /\ ParseIdle /\ EnrichIdle
    /\ ThreadIdle /\ LazyIdle

Init == InitWith(Personals, InitStores, {10}, Nets, CrawlPages, {Unscripted},
                 {"service", "legacy"}, {"async", "sync"})

Next ==
    \/ \E t \in Tasks : FetchRsidWithSemaphore(t)
    \/ \E t \in Tasks : SyncStart(t)
    \/ \E t \in Tasks : Response(t)
    \/ \E t \in Tasks : Retry(t)
    \/ \E t \in Tasks : Release(t)
    \/ \E t \in Tasks : AsyncComplete(t)
    \/ \E t \in Tasks : SyncComplete(t)
    \/ CrawlReturn
    \/ ExportOpen
    \/ ExportDump
    \/ ExportReplace
    \/ ExportFail
    \/ Crash

Spec == Init /\ [][Next]_vars

(***************************************************************************)
(* The worker pool: a concurrent crawl of more identifiers than there are  *)
(* slots, for every REQUEST_DELAY of RequestDelays, on a disk that does    *)
(* not fail.                                                               *)
(***************************************************************************)
PoolPersonals == {<<"rs1", "rs2", "rs3", "rs4">>}

PoolStatuses == {200, 429}

InitPool == InitWith(PoolPersonals, {StoreOf({})}, RequestDelays,
                     {PoolStatuses}, {PageBare}, {Unscripted},
                     {"service", "legacy"},
                     {"async"})

NextPool ==
    \/ \E t \in Tasks : FetchRsidWithSemaphore(t)
    \/ \E t \in Tasks : Response(t)
    \/ \E t \in Tasks : Retry(t)
    \/ \E t \in Tasks : Release(t)
    \/ \E t \in Tasks : AsyncComplete(t)
    \/ CrawlReturn
    \/ ExportOpen
    \/ ExportDump
    \/ ExportReplace

SpecPool == InitPool /\ [][NextPool]_vars

(***************************************************************************)
(* Scripted runs: the response to every (identifier, attempt) is fixed     *)
(* when the run starts, so that a sequential and a concurrent crawl of the *)
(* same input can be compared.                                             *)
(***************************************************************************)
Ok(p) == [status |-> 200, page |-> p]
Fail(s) == [status |-> s, page |-> PageBare]

EqScripts == {<< Ok(PageGood), Ok(PageGood), Ok(PageGood) >>,
              << Ok(PageBare), Ok(PageBare), Ok(PageBare) >>,
              << Fail(503), Ok(PageGood), Ok(PageGood) >>,
              << Fail(0), Fail(429), Fail(404) >>}

EqIds == {"rs1", "rs3", "Rs3"}

EqPersonals == {<<"rs1", "rs3">>, <<"Rs3", "rs3">>, <<"rs3", "Rs3">>}

EqStores == {StoreOf({}), StoreOf({"rs1"})}

InitEq == InitWith(EqPersonals, EqStores, {10}, {Statuses}, CrawlPages,
                   [EqIds -> EqScripts], {"service", "legacy"},
                   {"async", "sync"})

SpecEq == InitEq /\ [][Next]_vars

\* _fetch_rsid_sync / grab_table from attempt a on, as a function of the
\* scripted responses sc: the store it leaves
RECURSIVE FetchSyncFrom(_, _, _, _)
FetchSyncFrom(st, r, a, sc) ==
    LET v == IF impl = "service"
             THEN FetchRsidSync(st, r, a, sc[a + 1].status, sc[a + 1].page)
             ELSE GrabTable(st, r, a, sc[a + 1].status, sc[a + 1].page)
    IN  IF v.kind = "retry" THEN FetchSyncFrom(v.store, r, a + 1, sc)
        ELSE v.store

\* crawl_snps_sync / sync_crawl from the i-th identifier on, as a function:
\* the store the loop ends with
RECURSIVE CrawlSyncFrom(_, _)
CrawlSyncFrom(st, i) ==
    IF i > Len(rsids) THEN st
    ELSE CrawlSyncFrom(IF rsids[i] \in DOMAIN st THEN st
                       ELSE FetchSyncFrom(st, rsids[i], 0, script[rsids[i]]),
                       i + 1)

(***************************************************************************)
(* DataCache (utils/cache_manager.py).  The dict self._cache is the        *)
(* sequence of its entries in insertion order; every method runs under     *)
(* self._lock and is one step.  The clock advances between calls.          *)
(***************************************************************************)
CACHE_MAX_SIZE == 2
CACHE_TTL == 2

MaxNow == 3
MaxGets == 2

CacheKeys == {"k1", "k2", "k3"}
\* the argument `ttl` of set(): NoTtl stands for None
NoTtl == -1

\* the calls of set() made: one value with the default ttl, as
\* load_json_lazy does, and another with a ttl of one second
SetArgs == {[data |-> "v1", ttl |-> NoTtl], [data |-> "v2", ttl |-> 1]}

\* CacheEntry.__init__ at time t
CacheEntry(k, d, ttl, t) ==
    [key |-> k, data |-> d, timestamp |-> t, ttl |-> ttl, access_count |-> 0]

KeysOf(c) == {c[i].key : i \in 1..Len(c)}
IndexOf(c, k) == CHOOSE i \in 1..Len(c) : c[i].key = k
EntryOf(c, k) == c[IndexOf(c, k)]

\* del self._cache[k]
Del(c, k) == SelectSeq(c, LAMBDA e : e.key # k)

\* a variant that expires an entry as soon as its age reaches its ttl
IsExpiredAtTtl(e, t) == t - e.timestamp >= e.ttl

\* CacheEntry.is_expired at time t
IsExpired(e, t) == t - e.timestamp > e.ttl

\* (access_count, timestamp) of a is below that of b, as tuples
PairBelow(a, b) ==
    \/ a.access_count < b.access_count
    \/ a.access_count = b.access_count /\ a.timestamp < b.timestamp

\* a variant that evicts by age alone
EvictOldest(c) ==
    IF c = <<>> THEN c
    ELSE LET i == CHOOSE i \in 1..Len(c) :
                    /\ \A j \in 1..Len(c) : c[j].timestamp >= c[i].timestamp
                    /\ \A j \in 1..(i - 1) : c[j].timestamp > c[i].timestamp
         IN  Del(c, c[i].key)

\* DataCache._evict_lru: min() over the keys returns the first key, in dict
\* order, whose pair no other pair is below
\* a variant that evicts nothing
EvictNothing(c) == c

EvictLru(c) ==
    IF c = <<>> THEN c
    ELSE LET i == CHOOSE i \in 1..Len(c) :
                    /\ \A j \in 1..Len(c) : ~PairBelow(c[j], c[i])
                    /\ \A j \in 1..(i - 1) : PairBelow(c[i], c[j])
         IN  Del(c, c[i].key)

\* self._cache[key] = entry: a present key keeps its place in the dict
Assign(c, k, e) ==
    IF k \in KeysOf(c) THEN [c EXCEPT ![IndexOf(c, k)] = e] ELSE Append(c, e)

\* a variant of clear() that keeps a counter
KeepCounter(n) == n

\* clear(): self._hits = 0, self._misses = 0
ResetCounter(n) == 0

\* a variant of invalidate that empties the cache
InvalidateAll(c, k) == <<>>

\* DataCache.invalidate
InvalidateKey(c, k) == IF k \in KeysOf(c) THEN Del(c, k) ELSE c

\* DataCache.get_stats, without the formatted hit rate
GetStats ==
    [size |-> Len(cache), max_size |-> CACHE_MAX_SIZE, hits |-> hits,
     misses |-> misses, total_requests |-> hits + misses]

CacheFrame ==
    UNCHANGED << crawlVars, pageVars, flipVars, parseVars, enrichVars,
                 threadVars, lazyVars >>

\* DataCache.get
Get(k) ==
    /\ getsHit + getsMiss < MaxGets
    /\ IF k \notin KeysOf(cache)
       THEN /\ misses' = misses + 1
            /\ last' = [op |-> "get", key |-> k, ret |-> "None",
                        path |-> "absent"]
            /\ UNCHANGED << cache, hits >>
       ELSE IF IsExpired(EntryOf(cache, k), now)
       THEN /\ cache' = Del(cache, k)
            /\ misses' = misses + 1
            /\ last' = [op |-> "get", key |-> k, ret |-> "None",
                        path |-> "expired"]
            /\ UNCHANGED hits
       ELSE /\ hits' = hits + 1
            /\ cache' = [cache EXCEPT
                            ![IndexOf(cache, k)].access_count = @ + 1]
            /\ last' = [op |-> "get", key |-> k,
                        ret |-> EntryOf(cache, k).data, path |-> "hit"]
            /\ UNCHANGED misses
    /\ getsHit' = IF last'.ret = "None" THEN getsHit ELSE getsHit + 1
    /\ getsMiss' = IF last'.ret = "None" THEN getsMiss + 1 ELSE getsMiss
    /\ UNCHANGED << now, hitsAtClear, missAtClear >>
    /\ CacheFrame

\* DataCache.set
Set(k, d, ttlArg) ==
    LET full == Len(cache) >= CACHE_MAX_SIZE /\ k \notin KeysOf(cache)
        c1 == IF full THEN EvictLru(cache) ELSE cache
        ttl == IF ttlArg # NoTtl THEN ttlArg ELSE CACHE_TTL
    IN  /\ cache' = Assign(c1, k, CacheEntry(k, d, ttl, now))
        /\ last' = [op |-> "set", key |-> k, ret |-> "None",
                    path |-> IF full THEN "evicted" ELSE "stored"]
        /\ UNCHANGED << hits, misses, now, getsHit, getsMiss, hitsAtClear,
                        missAtClear >>
        /\ CacheFrame

\* DataCache.invalidate
Invalidate(k) ==
    /\ cache' = InvalidateKey(cache, k)
    /\ last' = [op |-> "invalidate", key |-> k, ret |-> "None",
                path |-> IF k \in KeysOf(cache) THEN "removed" ELSE "absent"]
    /\ UNCHANGED << hits, misses, now, getsHit, getsMiss, hitsAtClear,
                    missAtClear >>
    /\ CacheFrame

\* DataCache.clear
Clear ==
    /\ cache' = <<>>
    /\ hits' = ResetCounter(hits)
    /\ misses' = ResetCounter(misses)
    /\ hitsAtClear' = getsHit
    /\ missAtClear' = getsMiss
    /\ last' = [op |-> "clear", key |-> "", ret |-> "None", path |-> ""]
    /\ UNCHANGED << now, getsHit, getsMiss >>
    /\ CacheFrame

\* a second passes
Tick ==
    /\ now < MaxNow
    /\ now' = now + 1
    /\ last' = [op |-> "tick", key |-> "", ret |-> "None", path |-> ""]
    /\ UNCHANGED << cache, hits, misses, getsHit, getsMiss, hitsAtClear,
                    missAtClear >>
    /\ CacheFrame

\* a crawl that is not running
CrawlIdle ==
    /\ impl = "service" /\ mode = "sync" /\ delay10 = 10
    /\ net = {} /\ pages = {} /\ script = Unscripted
    /\ rsids = <<>> /\ rsid_info = EmptyStore
    /\ disk = Absent /\ tmp = Absent /\ disk0 = EmptyStore
    /\ lastCkpt = EmptyStore /\ nCkpt = 0
    /\ pc_main = "returned" /\ completed = 0 /\ delay_count = 0
    /\ saved_dc = 0 /\ sem = 0 /\ task = <<>>
    /\ everReqPresent = FALSE /\ writeFailed = FALSE

InitCache ==
    /\ CacheIdle /\ CrawlIdle /\ PageIdle /\ FlipIdle /\ ParseIdle
    /\ EnrichIdle /\ ThreadIdle /\ LazyIdle

NextCache ==
    \/ \E k \in CacheKeys : Get(k)
    \/ \E k \in CacheKeys, a \in SetArgs : Set(k, a.data, a.ttl)
    \/ \E k \in CacheKeys : Invalidate(k)
    \/ Clear
    \/ Tick

SpecCache == InitCache /\ [][NextCache]_vars

(***************************************************************************)
(* load_json_paginated (utils/cache_manager.py), from the value that       *)
(* load_json_lazy returned on.                                             *)
(***************************************************************************)
MaxItems == 5
MaxPageSize == 3
MaxPage == 7

\* what load_json_lazy may return: None, a list, a dict (taken as the list
\* of its values) or another JSON value
Items(n) == [i \in 1..n |-> i]

PageData ==
    {[kind |-> "list", items |-> Items(n)] : n \in 0..MaxItems}
    \cup {[kind |-> "dict", items |-> Items(n)] : n \in {0, 3}}
    \cup {[kind |-> "None", items |-> <<>>], [kind |-> "str", items |-> <<>>]}

\* a variant that takes the item at index b as well
SliceInclusive(items, a, b) ==
    [i \in 1..Max(0, Min(b + 1, Len(items)) - a) |-> items[a + i]]

\* items[a:b] for 0 <= a <= b
Slice(items, a, b) ==
    [i \in 1..Max(0, Min(b, Len(items)) - a) |-> items[a + i]]

\* a variant that rounds down
TotalPagesFloor(total, page_size) == total \div page_size

\* (total + page_size - 1) // page_size
TotalPages(total, page_size) == (total + page_size - 1) \div page_size

\* `if page < 1 ... elif page > total_pages and total_pages > 0`
ValidatePage(page, total_pages) ==
    IF page < 1 THEN 1
    ELSE IF page > total_pages /\ total_pages > 0 THEN total_pages
    ELSE page

LoadJsonPaginated(data, page, page_size) ==
    IF data.kind \notin {"list", "dict"}
    THEN [data |-> <<>>, page |-> page, page_size |-> page_size,
          total |-> 0, total_pages |-> 0]
    ELSE LET items == data.items
             total == Len(items)
             total_pages == TotalPages(total, page_size)
             pg == ValidatePage(page, total_pages)
             start_idx == (pg - 1) * page_size
             end_idx == start_idx + page_size
         IN  [data |-> Slice(items, start_idx, end_idx), page |-> pg,
              page_size |-> page_size, total |-> total,
              total_pages |-> total_pages, has_next |-> pg < total_pages,
              has_prev |-> pg > 1]

\* one call of load_json_paginated
Paginate ==
    /\ pg_out = <<>>
    /\ pg_out' = << LoadJsonPaginated(pg_data, pg_page, pg_size) >>
    /\ UNCHANGED << pg_data, pg_page, pg_size >>
    /\ UNCHANGED << crawlVars, cacheVars, flipVars, parseVars, enrichVars,
                    threadVars, lazyVars >>

InitPage ==
    /\ pg_data \in PageData
    /\ pg_page \in -1..MaxPage
    /\ pg_size \in 1..MaxPageSize
    /\ pg_out = <<>>
    /\ CrawlIdle /\ CacheIdle /\ FlipIdle /\ ParseIdle /\ EnrichIdle
    /\ ThreadIdle /\ LazyIdle

NextPage == Paginate

SpecPage == InitPage /\ [][NextPage]_vars

(***************************************************************************)
(* flip_alleles (SNPService in services/snp_service.py, SNPCrawl in        *)
(* data_crawler.py).  A string is the sequence of its characters.          *)
(***************************************************************************)
MaxFlips == 2

RECURSIVE LStrip(_, _)
LStrip(str, chars) ==
    IF str # <<>> /\ Head(str) \in chars THEN LStrip(Tail(str), chars)
    ELSE str

RECURSIVE RStrip(_, _)
RStrip(str, chars) ==
    IF str # <<>> /\ str[Len(str)] \in chars
    THEN RStrip(SubSeq(str, 1, Len(str) - 1), chars)
    ELSE str

\* str.strip(chars)
Strip(str, chars) == RStrip(LStrip(str, chars), chars)

\* str.split(";")
RECURSIVE Split(_)
Split(str) ==
    IF \A i \in 1..Len(str) : str[i] # ";" THEN << str >>
    ELSE LET i == CHOOSE i \in 1..Len(str) :
                    str[i] = ";" /\ \A j \in 1..(i - 1) : str[j] # ";"
         IN  << SubSeq(str, 1, i - 1) >> \o Split(SubSeq(str, i + 1, Len(str)))

\* a variant that does not complement G
FlipMapNoG(allele) ==
    CASE allele = <<"A">> -> <<"T">>
      [] allele = <<"T">> -> <<"A">>
      [] allele = <<"C">> -> <<"G">>
      [] OTHER -> allele

\* flip_map.get(allele, allele) / the chain of `if allele == ...`
FlipMap(allele) ==
    CASE allele = <<"A">> -> <<"T">>
      [] allele = <<"T">> -> <<"A">>
      [] allele = <<"C">> -> <<"G">>
      [] allele = <<"G">> -> <<"C">>
      [] OTHER -> allele

\* a variant that complements the first allele only
FlipFirst(alleles) ==
    [i \in 1..Len(alleles) |->
        IF i = 1 THEN FlipMap(alleles[i]) ELSE alleles[i]]

\* the loop over the alleles
FlipEach(alleles) == [i \in 1..Len(alleles) |-> FlipMap(alleles[i])]

\* a variant that ignores the case of the orientation
IsMinusAnyCase(o) == o \in {"minus", "Minus"}

\* stabilized_orientation == "minus"
IsMinus(o) == o = "minus"

\* f"({a};{b})" / "({};{})".format(a, b)
FormatGenotype(a, b) == <<"(">> \o a \o <<";">> \o b \o <<")">>

\* str(None)
NoneStr == <<"N", "o", "n", "e">>

Unflipped(g, wrote) ==
    [genotype |-> g, flipped |-> FALSE, raised |-> FALSE, wrote |-> wrote]

\* SNPService.flip_alleles
FlipAllelesService(g, o) ==
    IF IsMinus(o) /\ g # <<>>
    THEN LET alleles == Split(Strip(g, {"(", ")"}))
             m == FlipEach([i \in 1..Len(alleles) |->
                              Strip(alleles[i], {" "})])
         IN  IF Len(alleles) # 2 THEN Unflipped(g, FALSE)
             ELSE [genotype |-> FormatGenotype(m[1], m[2]),
                   flipped |-> TRUE, raised |-> FALSE, wrote |-> FALSE]
    ELSE Unflipped(g, FALSE)

\* SNPCrawl.flip_alleles; `wrote`: self.enriched_snps[rsid.lower()] was set
\* to the returned genotype; `raised`: the IndexError of a third allele
FlipAllelesLegacy(g, o) ==
    IF IsMinus(o) /\ g # <<>>
    THEN LET alleles == Split(Strip(g, {"(", ")"}))
             m == FlipEach(alleles)
         IN  IF Len(alleles) > 2
             THEN [genotype |-> g, flipped |-> FALSE, raised |-> TRUE,
                   wrote |-> FALSE]
             ELSE [genotype |-> FormatGenotype(m[1],
                                  IF Len(alleles) = 2 THEN m[2] ELSE NoneStr),
                   flipped |-> TRUE, raised |-> FALSE, wrote |-> TRUE]
    ELSE Unflipped(g, TRUE)

FlipAlleles(i, g, o) ==
    IF i = "service" THEN FlipAllelesService(g, o)
    ELSE FlipAllelesLegacy(g, o)

Symbols == {"A", "T", "C", "G", "-", "I", "D"}

Pair(x, y) == <<"(", x, ";", y, ")">>

\* genotypes: every pair of symbols, the empty string, and strings that
\* are not a parenthesised pair: "(A)", "(A;T;C)", "A;T", "( A;T)"
Genotypes ==
    {Pair(x, y) : x \in Symbols, y \in Symbols}
    \cup {<<>>, <<"(", "A", ")">>, <<"(", "A", ";", "T", ";", "C", ")">>,
          <<"A", ";", "T">>, <<"(", " ", "A", ";", "T", ")">>}

Orientations == {"minus", "plus", "", "Minus"}

\* flip_alleles is applied to the genotype, and again to its own result
Flip ==
    /\ Len(fl_out) < MaxFlips
    /\ IF fl_out = <<>> THEN TRUE ELSE ~fl_out[Len(fl_out)].raised
    /\ LET g == IF fl_out = <<>> THEN fl_genotype
                ELSE fl_out[Len(fl_out)].genotype
       IN  fl_out' = Append(fl_out, FlipAlleles(fl_impl, g, fl_orient))
    /\ UNCHANGED << fl_impl, fl_genotype, fl_orient >>
    /\ UNCHANGED << crawlVars, cacheVars, pageVars, parseVars, enrichVars,
                    threadVars, lazyVars >>

InitFlip ==
    /\ fl_impl \in {"service", "legacy"}
    /\ fl_genotype \in Genotypes
    /\ fl_orient \in Orientations
    /\ fl_out = <<>>
    /\ CrawlIdle /\ CacheIdle /\ PageIdle /\ ParseIdle /\ EnrichIdle
    /\ ThreadIdle /\ LazyIdle

NextFlip == Flip

SpecFlip == InitFlip /\ [][NextFlip]_vars

(***************************************************************************)
(*                               Properties                                *)
(***************************************************************************)
Finished(t) == task[t].pc \in {"pacing", "done", "counted"}

\* C1: during a concurrent crawl the number of identifiers whose fetch holds
\* a concurrency slot never exceeds max_concurrent, and max_concurrent lies
\* between 3 and 5 for every REQUEST_DELAY.
C1_InFlightBounded ==
    /\ Cardinality(Holders) <= MaxConcurrent(delay10)
    /\ 3 <= MaxConcurrent(delay10)
    /\ MaxConcurrent(delay10) <= 5

\* every slot is taken and a further identifier waits for one
C1_PoolFull ==
    /\ Cardinality(Holders) = MaxConcurrent(delay10)
    /\ \E t \in Tasks : task[t].pc = "pending"

\* C2: at every point of a crawl, in the middle of a checkpoint write and
\* after a crash there too, results.json is a complete file holding either
\* its content from before the crawl or the in-memory store as of the last
\* completed checkpoint.
C2_DiskNeverPartial ==
    /\ disk.st = "complete"
    /\ disk.data = IF nCkpt = 0 THEN disk0 ELSE lastCkpt

\* the process died while the temporary file was half written, with records
\* in memory that results.json does not hold
C2_CrashedMidWrite ==
    /\ pc_main = "crashed"
    /\ tmp.st = "partial"
    /\ nCkpt = 0
    /\ rsid_info # disk0

\* C3: when a crawl returns (and no checkpoint write failed), the persisted
\* store holds every record of the in-memory store, whatever the number of
\* completions.
C3_ReturnPersistsAll ==
    (pc_main = "returned" /\ ~writeFailed) =>
        \A k \in DOMAIN rsid_info :
            k \in DOMAIN disk.data /\ disk.data[k] = rsid_info[k]

\* C4: a crawl never issues a network request for an identifier that is a
\* key of the reference store at that moment.
C4_NoRequestForPresent == ~everReqPresent

\* C5: every record the store held when the crawl started is still there,
\* with the same content, at every later point of the crawl.
C5_ExistingPreserved ==
    \A k \in DOMAIN disk0 : k \in DOMAIN rsid_info /\ rsid_info[k] = disk0[k]

\* C6: an attempt answered with 404 ends the fetch: the step that handles
\* the 404 stores nothing and sleeps no retry delay, and afterwards the
\* identifier is never requested again in this crawl.
C6_NotFoundTerminal ==
    [][\A t \in Tasks :
         /\ task'[t].status = 404 =>
               /\ Finished(t)'
               /\ task'[t].result = "notfound"
               /\ task'[t].delay = 0
               /\ task[t].pc = "request" => rsid_info' = rsid_info
         /\ task[t].status = 404 =>
               /\ task'[t].status = 404
               /\ task'[t].nreq = task[t].nreq]_vars

\* a second attempt was answered with 404 and the crawl went on to the end
C6_NotFoundAfterRetry ==
    \E t \in Tasks :
        /\ task[t].status = 404 /\ task[t].nreq = 2
        /\ task[t].pc = "counted"
        /\ Lower(rsids[t]) \notin DOMAIN rsid_info
        /\ pc_main = "returned"

\* C7: in either mode, the delay slept after attempt i ended with 429, 502,
\* 503 or 504 is RETRY_DELAY * 2^i.
C7_ExponentialBackoff ==
    \A t \in Tasks :
        (task[t].pc = "backoff" /\ task[t].status \in {429, 502, 503, 504})
            => task[t].delay = RETRY_DELAY * Pow2(task[t].attempt)

\* C8: a fetch issues at most MAX_RETRIES requests and never sleeps after
\* the last of them; a fetch that is abandoned has issued exactly
\* MAX_RETRIES; and when the server rate-limits every request, every fetch
\* that ends is abandoned and the store stays as it was.
C8_AttemptsBounded ==
    /\ \A t \in Tasks :
          /\ task[t].nreq <= MAX_RETRIES
          /\ task[t].pc = "backoff" => task[t].nreq < MAX_RETRIES
          /\ task[t].result = "abandoned" => task[t].nreq = MAX_RETRIES
    /\ net = {429} =>
          /\ rsid_info = disk0
          /\ \A t \in Tasks :
                (Finished(t) /\ task[t].nreq > 0) =>
                    /\ task[t].result = "abandoned"
                    /\ task[t].nreq = 3

\* every request was rate-limited and a fetch ended after its third attempt
C8_AbandonedAfterThree ==
    /\ net = {429}
    /\ \E t \in Tasks :
          /\ task[t].result = "abandoned" /\ task[t].nreq = 3
          /\ task[t].pc = "counted"

\* C9: the delay slept after an attempt that failed without a response is
\* the flat RETRY_DELAY whatever the attempt number, and such a fetch is
\* given up only after MAX_RETRIES attempts.
C9_FlatNetworkDelay ==
    \A t \in Tasks :
        /\ (task[t].pc = "backoff" /\ task[t].status = 0)
              => task[t].delay = RETRY_DELAY
        /\ (Finished(t) /\ task[t].status = 0 /\ task[t].nreq > 0)
              => (task[t].result = "abandoned" /\ task[t].nreq = MAX_RETRIES)

\* a second attempt failed without a response and its fetch sleeps 5 s
C9_SecondNetworkFailure ==
    \E t \in Tasks :
        /\ task[t].pc = "backoff" /\ task[t].status = 0
        /\ task[t].attempt = 1 /\ task[t].delay = RETRY_DELAY

\* C10: when the crawl has returned, an identifier whose fetch was
\* abandoned is not a key of the reference store.
C10_AbandonedAbsent ==
    pc_main = "returned" =>
        \A t \in Tasks :
            task[t].result = "abandoned" => rsids[t] \notin DOMAIN rsid_info

\* C11: a crawl that has returned holds the store the sequential crawl of
\* the same initial store, identifiers and per-(identifier, attempt)
\* responses ends with, whatever the order the fetches completed in.
C11_SameStoreAsSequential ==
    pc_main = "returned" => rsid_info = CrawlSyncFrom(disk0, 1)

\* C12: get(k) on an entry older than its ttl returns a miss, deletes the
\* entry and adds one to the misses and nothing to the hits; get(k) on a
\* present entry no older than its ttl returns the stored value and adds one
\* to the hits and to the entry's access count.
C12_GetExpiredOrFresh ==
    [][last'.op = "get" /\ last'.key \in KeysOf(cache) =>
         LET k == last'.key
             e == EntryOf(cache, k)
         IN  IF now - e.timestamp > e.ttl
             THEN /\ last'.ret = "None"
                  /\ k \notin KeysOf(cache')
                  /\ misses' = misses + 1
                  /\ hits' = hits
             ELSE /\ last'.ret = e.data
                  /\ hits' = hits + 1
                  /\ misses' = misses
                  /\ EntryOf(cache', k) =
                        [e EXCEPT !.access_count = @ + 1]]_vars

\* a get has found an expired entry, after an earlier get had hit
C12_MissOnExpired == last.op = "get" /\ last.path = "expired" /\ hits > 0

C14_InvalidateOnlyKey ==
    [][/\ last'.op = "invalidate" =>
            /\ last'.key \notin KeysOf(cache')
            /\ cache' = Del(cache, last'.key)
            /\ hits' = hits /\ misses' = misses
            /\ (last'.key \notin KeysOf(cache) => cache' = cache)
       /\ last'.op = "get" /\ last'.key \notin KeysOf(cache) =>
            last'.ret = "None" /\ misses' = misses + 1]_vars

\* a key has been invalidated while another entry and the counters were in
\* place
C14_InvalidatedAmongOthers ==
    /\ last.op = "invalidate" /\ last.path = "removed"
    /\ Len(cache) > 0 /\ hits > 0 /\ misses > 0

\* C15 as stated: hits and misses are the numbers of get calls so far that
\* returned a value and that returned a miss, and size is the number of
\* entries stored.
C15_StatsCumulative ==
    /\ GetStats.hits = getsHit
    /\ GetStats.misses = getsMiss
    /\ GetStats.size = Len(cache)

\* C15 amended: hits and misses are the numbers of get calls since the last
\* clear() that returned a value and that returned a miss, and size is the
\* number of entries stored.
C15_StatsSinceClear ==
    /\ GetStats.hits = getsHit - hitsAtClear
    /\ GetStats.misses = getsMiss - missAtClear
    /\ GetStats.size = Len(cache)

\* a get has hit after a clear() that followed an earlier get
C15_HitAfterClear == hitsAtClear + missAtClear > 0 /\ hits > 0

\* the call has returned the page of a collection
Paged == pg_out # <<>> /\ pg_data.kind \in {"list", "dict"}

\* ceil(total / page_size): the least n with n * page_size >= total
Ceil(total, page_size) ==
    CHOOSE n \in 0..total : n * page_size >= total
                            /\ \A m \in 0..(n - 1) : m * page_size < total

\* C16: for 1 <= page <= total_pages, the result has total_pages =
\* ceil(total / page_size), the items at the indices from (page-1)*page_size
\* up to but excluding (page-1)*page_size + page_size, has_next = (page <
\* total_pages) and has_prev = (page > 1).
C16_PageInRange ==
    Paged =>
      LET total == Len(pg_data.items)
          tp == Ceil(total, pg_size)
          first == (pg_page - 1) * pg_size
          idx == {j \in 0..(total - 1) : first <= j /\ j < first + pg_size}
          out == pg_out[1]
      IN  1 <= pg_page /\ pg_page <= tp =>
            /\ out.total_pages = tp
            /\ Len(out.data) = Cardinality(idx)
            /\ \A i \in 1..Len(out.data) :
                  out.data[i] = pg_data.items[first + i]
            /\ out.has_next = (pg_page < tp)
            /\ out.has_prev = (pg_page > 1)

\* page 3 of 5 items by 2: one item, no next page, a previous page
C16_LastPageOfFive ==
    /\ Paged /\ Len(pg_data.items) = 5 /\ pg_size = 2 /\ pg_page = 3
    /\ Len(pg_out[1].data) = 1
    /\ ~pg_out[1].has_next /\ pg_out[1].has_prev

\* C17: the page of the result is the requested page clamped: 1 for a page
\* below 1, total_pages for a page above total_pages, and 1 for every
\* requested page of an empty collection.
C17_PageClamped ==
    Paged =>
      LET total == Len(pg_data.items)
          tp == Ceil(total, pg_size)
      IN  pg_out[1].page = IF total = 0 \/ pg_page < 1 THEN 1
                           ELSE IF pg_page > tp THEN tp ELSE pg_page

Bases == {"A", "T", "C", "G"}

\* the complement of one symbol
Complement(x) ==
    CASE x = "A" -> "T" [] x = "T" -> "A" [] x = "C" -> "G" [] x = "G" -> "C"
      [] OTHER -> x

\* C18: for a pair (a;b) of A, T, C, G, applying flip_alleles with
\* orientation "minus" twice returns the original genotype.
C18_MinusTwiceIsIdentity ==
    /\ fl_orient = "minus"
    /\ fl_genotype \in {Pair(a, b) : a \in Bases, b \in Bases}
    /\ Len(fl_out) = 2
    => fl_out[2].genotype = fl_genotype

\* (G;A) has been flipped to (C;T) and back
C18_FlippedAndBack ==
    /\ fl_orient = "minus" /\ fl_genotype = Pair("G", "A")
    /\ Len(fl_out) = 2
    /\ fl_out[1].genotype = Pair("C", "T")
    /\ fl_out[2].genotype = Pair("G", "A")

\* C19: for orientation "plus" or any other value that is not "minus",
\* flip_alleles returns the genotype unchanged and flipped = False, for
\* every genotype.
C19_NotMinusIsIdentity ==
    fl_orient # "minus" /\ fl_out # <<>> =>
        /\ fl_out[1].genotype = fl_genotype
        /\ ~fl_out[1].flipped
        /\ ~fl_out[1].raised

\* a pair of bases has gone through with an orientation of "Minus"
C19_UnknownOrientation ==
    /\ fl_orient = "Minus" /\ fl_genotype = Pair("A", "G")
    /\ fl_out # <<>> /\ fl_out[1].genotype = Pair("A", "G")

\* C20: with orientation "minus", a genotype (X;Y) comes back as
\* (c(X);c(Y)), each allele complemented on its own and a symbol outside
\* A, T, C, G left as it is, with flipped = True.
C20_MinusComplementsEach ==
    fl_orient = "minus" /\ fl_out # <<>> =>
        \A x \in Symbols, y \in Symbols :
            fl_genotype = Pair(x, y) =>
                /\ fl_out[1].genotype = Pair(Complement(x), Complement(y))
                /\ fl_out[1].flipped

\* (-;C) has been flipped to (-;G)
C20_MixedPairFlipped ==
    /\ fl_orient = "minus" /\ fl_genotype = Pair("-", "C")
    /\ fl_out # <<>> /\ fl_out[1].genotype = Pair("-", "G")
    /\ fl_out[1].flipped

\* C21: for the unknown-genotype sentinel "(-;-)", flip_alleles returns the
\* genotype unchanged and reports flipped = False under every orientation,
\* "minus" included.
C21_SentinelNeverFlipped ==
    (fl_genotype = Pair("-", "-") /\ fl_out # <<>>)
        => /\ fl_out[1].genotype = fl_genotype
           /\ ~fl_out[1].flipped

(***************************************************************************)
(* The page parser on its own: one page, parsed once for one identifier    *)
(* into an empty store.  `returned` is <<the record>> the parse hands      *)
(* back, or <<>> when it raised (CrawlerService._parse_snpedia_page would  *)
(* catch and return None; in SNPCrawl the exception leaves the parsing     *)
(* code and is caught by the retry loop of the fetch).                     *)
(***************************************************************************)
DescBlocks ==
    {NoTable, [found |-> TRUE, rows |-> <<>>],
     [found |-> TRUE, rows |-> << <<"">> >>],
     [found |-> TRUE, rows |-> << <<"d">> >>]}

SortableTables ==
    {NoTable, [found |-> TRUE, rows |-> <<>>],
     [found |-> TRUE, rows |-> << <<>> >>], PageGood.table}

ParsePages ==
    [marker : {"td", "link", "none"}, plus : BOOLEAN, minus : BOOLEAN,
     desc : DescBlocks, table : SortableTables]

ParseRsids == {"rs1", "Rs3"}

ParsePage(i, r, p) ==
    IF i = "service"
    THEN [store |-> Put(EmptyStore, Lower(r), ParseSnpediaPage(p)),
          raised |-> FALSE, returned |-> << ParseSnpediaPage(p) >>]
    ELSE LET res == ParseLegacy(EmptyStore, r, p)
         IN  [store |-> res.store, raised |-> res.raised,
              returned |-> IF res.raised THEN <<>> ELSE << res.store[r] >>]

Parse ==
    /\ ps_out = <<>>
    /\ ps_out' = << ParsePage(ps_impl, ps_rsid, ps_page) >>
    /\ UNCHANGED << ps_impl, ps_rsid, ps_page >>
    /\ UNCHANGED << crawlVars, cacheVars, pageVars, flipVars, enrichVars,
                    threadVars, lazyVars >>

InitParse ==
    /\ ps_impl \in {"service", "legacy"}
    /\ ps_rsid \in ParseRsids
    /\ ps_page \in ParsePages
    /\ ps_out = <<>>
    /\ CrawlIdle /\ CacheIdle /\ PageIdle /\ FlipIdle /\ EnrichIdle
    /\ ThreadIdle /\ LazyIdle

NextParse == Parse

SpecParse == InitParse /\ [][NextParse]_vars

\* a description block that is missing, or holds no non-empty cell
NoDescription(p) == ~p.desc.found \/ TableToList(p.desc.rows) = <<>>

\* C30: parsing never raises, and whatever the combination of orientation
\* marker, description block and sortable table, it returns a record whose
\* Description is "" when the block is missing or empty, whose Variations
\* is [] when the table is missing, and whose orientation is the unknown
\* value "" when the marker is missing.
C30_ParseDegrades ==
    ps_out # <<>> =>
        /\ ~ps_out[1].raised
        /\ ps_out[1].returned # <<>>
        /\ LET rec == ps_out[1].returned[1]
           IN  /\ NoDescription(ps_page) => rec.Description = ""
               /\ ~ps_page.table.found => rec.Variations = <<>>
               /\ ps_page.marker = "none" => rec.StabilizedOrientation = ""

(***************************************************************************)
(* Enrichment: the personal genotypes joined with the reference records    *)
(* (cli.process_results over SNPService.process_genome_data and            *)
(* ResultRepository.save_results; SNPCrawl.create_list).  The texts that   *)
(* the code inspects (genotypes, the fields of a variation row, the        *)
(* rendered cells) are sequences of characters; a markup tag is written as *)
(* one element.                                                            *)
(***************************************************************************)
UpperCase ==
    <<"A", "B", "C", "D", "E", "F", "G", "H", "I", "J", "K", "L", "M", "N",
      "O", "P", "Q", "R", "S", "T", "U", "V", "W", "X", "Y", "Z">>

LowerCase ==
    <<"a", "b", "c", "d", "e", "f", "g", "h", "i", "j", "k", "l", "m", "n",
      "o", "p", "q", "r", "s", "t", "u", "v", "w", "x", "y", "z">>

\* str.lower()
LowerStr(s) ==
    [i \in 1..Len(s) |->
        IF \E j \in 1..26 : UpperCase[j] = s[i]
        THEN LowerCase[CHOOSE j \in 1..26 : UpperCase[j] = s[i]]
        ELSE s[i]]

\* str.startswith(p)
StartsWith(s, p) == Len(p) <= Len(s) /\ SubSeq(s, 1, Len(p)) = p

\* p in s
Contains(s, p) ==
    \E i \in 1..(Len(s) - Len(p) + 1) : SubSeq(s, i, i + Len(p) - 1) = p

common_words ==
  <<
     <<"c", "o", "m", "m", "o", "n">>,
     <<"v", "e", "r", "y", " ", "c", "o", "m", "m", "o", "n">>,
     <<"m", "o", "s", "t", " ", "c", "o", "m", "m", "o", "n">>,
     <<"n", "o", "r", "m", "a", "l">>,
     <<"a", "v", "e", "r", "a", "g", "e">>,
     <<"m", "i", "s", "c", "a", "l", "l", " ", "i", "n", " ", "a", "n",
       "c", "e", "s", "t", "r", "y">>,
     <<"a", "n", "c", "e", "s", "t", "r", "y", " ", "m", "i", "s", "c",
       "a", "l", "l">>,
     <<"m", "i", "s", "c", "a", "l", "l", " ", "b", "y", " ", "a", "n",
       "c", "e", "s", "t", "r", "y">>
  >>

\* description.startswith(tuple(common_words))
StartsWithCommon(description) ==
    \E i \in 1..Len(common_words) : StartsWith(description, common_words[i])

CommonInClinvar ==
    <<"c", "o", "m", "m", "o", "n", " ", "i", "n", " ", "c", "l", "i", "n",
      "v", "a", "r">>

\* a variant that reads the second field of the row
SecondField(variation) == variation[2]

\* variation[2]
Significance(variation) == variation[3]

\* a variant that compares the text as written
IsInterestingRowAsWritten(variation) ==
    Len(variation) > 2 /\ ~StartsWithCommon(Significance(variation))

\* SNPCrawl.is_interesting; the body of the loop of
\* SNPediaEntry.is_interesting
IsInterestingRow(variation) ==
    Len(variation) > 2
    /\ ~StartsWithCommon(LowerStr(Significance(variation)))

\* SNPediaEntry.is_interesting; the "Check if interesting" loop of
\* SNPCrawl.create_list
IsInteresting(variations) ==
    \E i \in 1..Len(variations) : IsInterestingRow(variations[i])

\* a variant without the prefix test
LacksMarker(description) == ~Contains(description, CommonInClinvar)

\* a variant without the marker test
LacksCommonPrefix(description) == ~StartsWithCommon(description)

\* the test both implementations apply to the lower-cased significance of
\* the matching row
IsUncommonText(description) ==
    ~StartsWithCommon(description)
    /\ ~Contains(description, CommonInClinvar)

\* SNPediaEntry.get_genotype_info: <<the row>>, or <<>> for None
GetGenotypeInfo(variations, genotype) ==
    LET idx == {i \in 1..Len(variations) :
                    IF variations[i] = <<>> THEN FALSE
                    ELSE variations[i][1] = genotype}
    IN  IF idx = {} THEN <<>>
        ELSE << variations[CHOOSE i \in idx : \A j \in idx : i <= j] >>

\* SNPediaEntry.is_uncommon_for_genotype
IsUncommonForGenotype(variations, genotype) ==
    LET variation_info == GetGenotypeInfo(variations, genotype)
    IN  IF variation_info = <<>> THEN FALSE
        ELSE IF Len(variation_info[1]) <= 2 THEN FALSE
        ELSE IsUncommonText(LowerStr(Significance(variation_info[1])))

\* SNPCrawl.is_uncommon, for enriched_snps[rsid.lower()] = genotype
IsUncommon(genotype, variation) ==
    /\ variation[1] = genotype
    /\ Len(variation) > 2
    /\ IsUncommonText(LowerStr(Significance(variation)))

\* sep.join(parts)
RECURSIVE Join(_, _)
Join(sep, parts) ==
    IF parts = <<>> THEN <<>>
    ELSE IF Len(parts) = 1 THEN parts[1]
    ELSE parts[1] \o sep \o Join(sep, Tail(parts))

Bold(text) == <<"<b>">> \o text \o <<"</b>">>

\* a variant that bolds no row
FormatCellPlain(current_genotype, variation) == Join(<<" ">>, variation)

\* SNPCrawl.format_cell; the body of the formatting loop of
\* SNPService.create_enriched_snp
FormatCell(current_genotype, variation) ==
    IF current_genotype = variation[1]
    THEN Bold(Join(<<" ">>, variation))
    ELSE Join(<<" ">>, variation)

\* the note appended to the display genotype of a flipped call
FlippedNote(flipped) ==
    <<"<br>", "<i>", "flipped", "<br>">> \o flipped \o <<"</i>">>

YesNo(b) == IF b THEN "Yes" ELSE "No"

\* SNPData.has_genotype
HasGenotype(genotype) ==
    genotype # Pair("-", "-") /\ Strip(genotype, {" "}) # <<>>

\* a dict as the sequence of its items, in insertion order
Item(k, v) == [key |-> k, value |-> v]

\* d.get(k, default)
DictGet(d, k, default) == IF k \in DOMAIN d THEN d[k] ELSE default

\* a reference entry that is not a dict (JSON null)
NullEntry == [null |-> TRUE]
IsDict(values) == "null" \notin DOMAIN values

\* SNPediaRepository.get_by_id: <<the SNPediaEntry>>, <<>> for None;
\* `raised`: the AttributeError of entry_data.get on an entry that is not
\* a dict
GetById(data, rsid) ==
    IF Lower(rsid) \notin KeysOf(data)
    THEN [entry |-> <<>>, raised |-> FALSE]
    ELSE LET entry_data == EntryOf(data, Lower(rsid)).value
         IN  IF ~IsDict(entry_data) THEN [entry |-> <<>>, raised |-> TRUE]
             ELSE [entry |->
                     << [rsid |-> rsid,
                         description |->
                             DictGet(entry_data, "Description", ""),
                         variations |->
                             DictGet(entry_data, "Variations", <<>>),
                         stabilized_orientation |->
                             DictGet(entry_data, "StabilizedOrientation",
                                     "")] >>,
                   raised |-> FALSE]

\* SNPService.create_enriched_snp, as the dict EnrichedSNP.to_dict makes of
\* it
CreateEnrichedSnp(rsid, genotype, snpedia_data) ==
    LET flip_result ==
            FlipAllelesService(genotype, snpedia_data.stabilized_orientation)
        rows == SelectSeq(snpedia_data.variations, LAMBDA v : v # <<>>)
        formatted_variations ==
            [i \in 1..Len(rows) |-> FormatCell(flip_result.genotype, rows[i])]
    IN  [Name |-> rsid,
         Description |-> snpedia_data.description,
         Genotype |-> IF flip_result.flipped
                      THEN genotype \o FlippedNote(flip_result.genotype)
                      ELSE genotype,
         Variations |-> Join(<<"<br>">>, formatted_variations),
         StabilizedOrientation |-> snpedia_data.stabilized_orientation,
         IsInteresting |-> YesNo(IsInteresting(snpedia_data.variations)),
         IsUncommon |->
             YesNo(IsUncommonForGenotype(snpedia_data.variations,
                                         flip_result.genotype))]

\* SNPService.process_genome_data
ProcessGenomeData(personal, data) ==
    LET F[i \in 0..Len(personal)] ==
            IF i = 0 THEN <<>>
            ELSE LET rsid == personal[i].key
                     genotype == personal[i].value
                     found == GetById(data, rsid)
                 IN  IF ~HasGenotype(genotype) THEN F[i - 1]
                     ELSE IF found.raised \/ found.entry = <<>>
                     THEN F[i - 1]
                     ELSE Append(F[i - 1],
                                 CreateEnrichedSnp(rsid, genotype,
                                                   found.entry[1]))
    IN  F[Len(personal)]

\* one pass of the loop of SNPCrawl.create_list: the list and
\* self.enriched_snps after the item (rsid, values)
CreateListItem(acc, personal, rsid, values) ==
    IF Lower(rsid) \notin KeysOf(personal) THEN acc
    ELSE
    LET genotype == EntryOf(personal, Lower(rsid)).value
        e1 == Put(acc.enriched, Lower(rsid), genotype)
    IN  IF ~IsDict(values) THEN [list |-> acc.list, enriched |-> e1]
        ELSE
        LET known == "StabilizedOrientation" \in DOMAIN values
            stbl_orient == IF known THEN values.StabilizedOrientation
                           ELSE "Old Data Format"
            res == FlipAllelesLegacy(genotype, stbl_orient)
            flipped == known /\ ~res.raised /\ res.flipped
            current == IF known /\ ~res.raised THEN res.genotype
                       ELSE genotype
            variations == DictGet(values, "Variations", <<>>)
            interesting_snp ==
                \E i \in 1..Len(variations) : IsInterestingRow(variations[i])
            uncommon_snp ==
                \E i \in 1..Len(variations) : IsUncommon(current, variations[i])
            cells == [i \in 1..Len(variations) |->
                         FormatCell(current, variations[i])]
            maker ==
                [Name |-> rsid,
                 Description |-> DictGet(values, "Description", ""),
                 Genotype |-> IF flipped THEN genotype \o FlippedNote(current)
                              ELSE genotype,
                 Variations |-> Join(<<"<br>">>, cells),
                 StabilizedOrientation |-> stbl_orient,
                 IsInteresting |-> YesNo(interesting_snp),
                 IsUncommon |-> YesNo(uncommon_snp)]
        IN  [list |-> Append(acc.list, maker),
             enriched |-> Put(e1, Lower(rsid), current)]

\* the loop of SNPCrawl.create_list
CreateListFrom(info, personal, enriched) ==
    LET F[i \in 0..Len(info)] ==
            IF i = 0 THEN [list |-> <<>>, enriched |-> enriched]
            ELSE CreateListItem(F[i - 1], personal, info[i].key,
                                info[i].value)
    IN  F[Len(info)]

\* ResultRepository.save_results / export_to_file(data=self.rsid_list,
\* filename="result_table.json"): the file after the save
SaveResults(saved, results) == results

MaxRuns == 2

\* cli.process_results
ProcessResults ==
    /\ en_impl = "service"
    /\ en_runs < MaxRuns
    /\ LET enriched_snps == ProcessGenomeData(en_personal, en_rsid_info)
       IN  /\ en_rsid_list' = enriched_snps
           /\ en_result_table' =
                  IF enriched_snps = <<>> THEN en_result_table
                  ELSE SaveResults(en_result_table, enriched_snps)
    /\ en_read' = << [personal |-> en_personal, info |-> en_rsid_info] >>
    /\ en_runs' = en_runs + 1
    /\ UNCHANGED << en_impl, en_personal, en_rsid_info, en_enriched >>
    /\ UNCHANGED << crawlVars, cacheVars, pageVars, flipVars, parseVars,
                    threadVars, lazyVars >>

\* SNPCrawl.create_list
CreateList ==
    /\ en_impl = "legacy"
    /\ en_runs < MaxRuns
    /\ LET res == CreateListFrom(en_rsid_info, en_personal, en_enriched)
       IN  /\ en_rsid_list' = res.list
           /\ en_enriched' = res.enriched
           /\ en_result_table' = SaveResults(en_result_table, res.list)
    /\ en_read' = << [personal |-> en_personal, info |-> en_rsid_info] >>
    /\ en_runs' = en_runs + 1
    /\ UNCHANGED << en_impl, en_personal, en_rsid_info >>
    /\ UNCHANGED << crawlVars, cacheVars, pageVars, flipVars, parseVars,
                    threadVars, lazyVars >>

(***************************************************************************)
(* The stores an enrichment run may find.  A variation row is              *)
(* [genotype, magnitude, summary]: the parser keeps the cells of the       *)
(* sortable table in their order and drops empty cells, so a row may be    *)
(* shorter.                                                                *)
(***************************************************************************)
TextCommon == <<"c", "o", "m", "m", "o", "n">>
TextNormal == <<"N", "o", "r", "m", "a", "l">>
TextRare == <<"r", "a", "r", "e", " ", "f", "i", "n", "d", "i", "n", "g">>
TextUncommon == <<"u", "n", "c", "o", "m", "m", "o", "n">>
TextMarker ==
    <<"r", "a", "r", "e", " ", "C", "o", "m", "m", "o", "n", " ", "i", "n">>
    \o <<" ", "C", "l", "i", "n", "V", "a", "r">>

RowsScenario ==
    << << Pair("T", "C"), TextCommon, <<"n">> >>,
       << Pair("A", "G"), TextRare, <<"x">> >> >>
RowsRareOther ==
    << << Pair("A", "G"), <<"2">>, TextCommon >>,
       << Pair("G", "G"), <<"3">>, TextRare >> >>
RowsAllCommon ==
    << << Pair("A", "G"), <<"0">>, TextNormal >>,
       << Pair("G", "G"), <<"0">>, TextCommon >> >>
RowsShort == << << Pair("A", "G"), <<"1">> >>, << Pair("G", "G") >> >>
RowsMarker ==
    << << Pair("A", "G"), <<"2">>, TextMarker >>,
       << Pair("T", "C"), <<"1">>, TextUncommon >> >>
RowsTwice ==
    << << Pair("A", "G"), <<"0">>, TextCommon >>,
       << Pair("A", "G"), <<"3">>, TextRare >> >>

VariationLists ==
    {<<>>, RowsScenario, RowsRareOther, RowsAllCommon, RowsShort,
     RowsMarker, RowsTwice}

\* a record as the parsers store it, and one of a file written before the
\* orientation was recorded
Entry(o, v) ==
    [Description |-> "d", Variations |-> v, StabilizedOrientation |-> o]
OldEntryFormat(v) == [Description |-> "d", Variations |-> v]

Entries ==
    {Entry(o, v) : o \in {"", "plus", "minus"}, v \in VariationLists}
    \cup {OldEntryFormat(v) : v \in VariationLists}

PersonalGenotypes ==
    {Pair("A", "G"), Pair("T", "C"), Pair("G", "G"), Pair("C", "C"),
     Pair("-", "-")}

\* one identifier, every genotype against every record
SingleStores ==
    {[personal |-> << Item("rs1", g) >>, info |-> << Item("rs1", e) >>] :
        g \in PersonalGenotypes, e \in Entries}

\* several identifiers: a no-call, a mixed-case key, one without reference
\* data and one whose reference entry is not a dict
BatchStores ==
    {[personal |-> << Item("rs1", Pair("A", "G")), Item("rs2", Pair("-", "-")),
                      Item("Rs3", Pair("A", "G")), Item("rs4", Pair("G", "G")),
                      Item("rs5", Pair("C", "C")) >>,
      info |-> << Item("rs1", Entry("minus", RowsScenario)),
                  Item("rs2", Entry("plus", RowsRareOther)),
                  Item("rs3", Entry("plus", RowsRareOther)),
                  Item("rs5", NullEntry) >>]}

\* what a later import may leave in personal_snps.json
ImportPool ==
    {<< Item("rs9", Pair("A", "G")) >>,
     << Item("rs1", Pair("G", "G")), Item("rs4", Pair("G", "G")) >>}

\* what a crawl may add to results.json
CrawlPool ==
    {Item("rs4", Entry("plus", RowsRareOther)),
     Item("rs9", Entry("minus", RowsAllCommon))}

\* genome_importer / ImportService writes personal_snps.json anew; the next
\* run is that of a new process
Reimport ==
    /\ en_runs < MaxRuns
    /\ \E p \in ImportPool :
        /\ p # en_personal
        /\ en_personal' = p
    /\ en_enriched' = EmptyStore
    /\ UNCHANGED << en_impl, en_rsid_info, en_read, en_rsid_list,
                    en_result_table, en_runs >>
    /\ UNCHANGED << crawlVars, cacheVars, pageVars, flipVars, parseVars,
                    threadVars, lazyVars >>

\* the crawl stores the record of an identifier it did not have
CrawlStores ==
    /\ en_runs < MaxRuns
    /\ \E it \in CrawlPool :
        /\ it.key \notin KeysOf(en_rsid_info)
        /\ en_rsid_info' = Append(en_rsid_info, it)
    /\ UNCHANGED << en_impl, en_personal, en_enriched, en_read,
                    en_rsid_list, en_result_table, en_runs >>
    /\ UNCHANGED << crawlVars, cacheVars, pageVars, flipVars, parseVars,
                    threadVars, lazyVars >>

InitEnrich ==
    /\ en_impl \in {"service", "legacy"}
    /\ \E s \in SingleStores \cup BatchStores :
        en_personal = s.personal /\ en_rsid_info = s.info
    /\ en_enriched = EmptyStore
    /\ en_read = <<>>
    /\ en_rsid_list = <<>>
    /\ en_result_table = <<>>
    /\ en_runs = 0
    /\ CrawlIdle /\ CacheIdle /\ PageIdle /\ FlipIdle /\ ParseIdle
    /\ ThreadIdle /\ LazyIdle

NextEnrich ==
    \/ ProcessResults
    \/ CreateList
    \/ Reimport
    \/ CrawlStores

SpecEnrich == InitEnrich /\ [][NextEnrich]_vars

(***************************************************************************)
(* Properties of the enrichment.  They are stated over the records of the  *)
(* last run and the stores as that run read them.                          *)
(***************************************************************************)
Ran == en_runs > 0
Records == {en_rsid_list[i] : i \in 1..Len(en_rsid_list)}

\* the personal genotype and the reference entry a record was made from
GenotypeOf(rec) == EntryOf(en_read[1].personal, rec.Name).value
ReferenceOf(rec) == EntryOf(en_read[1].info, Lower(rec.Name)).value
RowsOf(rec) == DictGet(ReferenceOf(rec), "Variations", <<>>)

\* the individual's genotype on the strand of the reference record
NormalizedOf(rec) ==
    LET g == GenotypeOf(rec)
    IN  IF DictGet(ReferenceOf(rec), "StabilizedOrientation", "") = "minus"
        THEN Pair(Complement(g[2]), Complement(g[4]))
        ELSE g

SameLetter(a, b) ==
    a = b \/ \E j \in 1..26 : {a, b} = {UpperCase[j], LowerCase[j]}

\* text holds phrase at position k, whatever the case of its letters
HoldsAt(text, phrase, k) ==
    /\ k + Len(phrase) - 1 <= Len(text)
    /\ \A i \in 1..Len(phrase) : SameLetter(text[k + i - 1], phrase[i])

BeginsWithCommonPhrase(text) ==
    \E n \in 1..Len(common_words) : HoldsAt(text, common_words[n], 1)

HoldsMarker(text) ==
    \E k \in 1..Len(text) : HoldsAt(text, CommonInClinvar, k)

HasSignificance(row) == Len(row) >= 3

MatchingRows(rec) ==
    {i \in 1..Len(RowsOf(rec)) : RowsOf(rec)[i][1] = NormalizedOf(rec)}

\* C22: no enriched record is uncommon without being interesting,
\* whatever the personal genotype and the reference record.
C22_UncommonImpliesInteresting ==
    Ran => \A rec \in Records :
               rec.IsUncommon = "Yes" => rec.IsInteresting = "Yes"

C22_UncommonRecord ==
    /\ Ran
    /\ \E rec \in Records :
        /\ rec.IsUncommon = "Yes" /\ rec.IsInteresting = "Yes"
        /\ \E i \in MatchingRows(rec) :
               HasSignificance(RowsOf(rec)[i]) /\ RowsOf(rec)[i][3] = TextRare

\* C24: a record is interesting exactly when some variation row of its
\* reference record has a significance text that does not begin, in any
\* case of letters, with a common phrase, whichever genotype the individual
\* carries; with every significance beginning with a common phrase, or no
\* row having a significance, it is not interesting.
C24_InterestingIffSomeRowNotable ==
    Ran => \A rec \in Records :
               rec.IsInteresting = "Yes"
                   <=> \E i \in 1..Len(RowsOf(rec)) :
                           /\ HasSignificance(RowsOf(rec)[i])
                           /\ ~BeginsWithCommonPhrase(RowsOf(rec)[i][3])

\* a record that is interesting although no row is the individual's
\* genotype
C24_InterestingForOthers ==
    /\ Ran
    /\ \E rec \in Records :
        /\ rec.IsInteresting = "Yes" /\ MatchingRows(rec) = {}
        /\ RowsOf(rec) = RowsRareOther

\* C25: a record is uncommon only if a row whose genotype field equals the
\* normalized genotype has a significance that neither begins with a
\* common phrase nor holds the marker "common in clinvar" (letters in any
\* case); it is uncommon if there are such rows and every one of them has
\* such a significance; it is not uncommon when no row matches.  With one
\* matching row, as on a page that lists a genotype once, this is "exactly
\* when".
C25_UncommonIffMatchingRowNotable ==
    Ran => \A rec \in Records :
        LET notable(i) ==
                /\ HasSignificance(RowsOf(rec)[i])
                /\ ~BeginsWithCommonPhrase(RowsOf(rec)[i][3])
                /\ ~HoldsMarker(RowsOf(rec)[i][3])
        IN  /\ MatchingRows(rec) = {} => rec.IsUncommon = "No"
            /\ rec.IsUncommon = "Yes"
                   => \E i \in MatchingRows(rec) : notable(i)
            /\ (MatchingRows(rec) # {}
                /\ \A i \in MatchingRows(rec) : notable(i))
                   => rec.IsUncommon = "Yes"

\* the matching row carries the marker in mixed case
C25_MarkerRowMatched ==
    /\ Ran
    /\ \E rec \in Records :
        /\ rec.IsUncommon = "No" /\ rec.IsInteresting = "Yes"
        /\ \E i \in MatchingRows(rec) :
               HasSignificance(RowsOf(rec)[i])
               /\ RowsOf(rec)[i][3] = TextMarker

\* the stores of the scenario: the individual carries (A;G), the record is
\* on the minus strand and lists (T;C) and (A;G)
ScenarioRead ==
    [personal |-> << Item("rs1", Pair("A", "G")) >>,
     info |-> << Item("rs1", Entry("minus", RowsScenario)) >>]

\* the row as it is rendered, its fields joined by blanks
Plain(row) == Join(<<" ">>, row)

\* C23, as stated: for genotype (A;G) and a record of orientation "minus"
\* with rows [(T;C), common, n] and [(A;G), rare finding, x] the genotype is
\* normalized to (T;C), the row [(T;C), common, n] is the matching one, and
\* the record is neither interesting nor uncommon.
C23_ScenarioNotInteresting ==
    (Ran /\ en_read[1] = ScenarioRead) =>
        /\ Len(en_rsid_list) = 1
        /\ en_rsid_list[1].Genotype =
               Pair("A", "G") \o FlippedNote(Pair("T", "C"))
        /\ en_rsid_list[1].Variations =
               Bold(Plain(RowsScenario[1])) \o <<"<br>">>
                   \o Plain(RowsScenario[2])
        /\ en_rsid_list[1].IsInteresting = "No"
        /\ en_rsid_list[1].IsUncommon = "No"

\* C23, amended: in that scenario the genotype is normalized to (T;C), the
\* row [(T;C), common, n] is the matching one, and the record is both
\* interesting and uncommon: the significance of a row is its third field,
\* "n" and "x" here, and neither begins with a common phrase.
C23_ScenarioInteresting ==
    (Ran /\ en_read[1] = ScenarioRead) =>
        /\ Len(en_rsid_list) = 1
        /\ en_rsid_list[1].Genotype =
               Pair("A", "G") \o FlippedNote(Pair("T", "C"))
        /\ en_rsid_list[1].Variations =
               Bold(Plain(RowsScenario[1])) \o <<"<br>">>
                   \o Plain(RowsScenario[2])
        /\ en_rsid_list[1].IsInteresting = "Yes"
        /\ en_rsid_list[1].IsUncommon = "Yes"

C23_ScenarioEnriched ==
    /\ Ran /\ en_read[1] = ScenarioRead
    /\ Len(en_rsid_list) = 1
    /\ en_rsid_list[1].Name = "rs1"
    /\ en_rsid_list[1].StabilizedOrientation = "minus"

\* C26: in the Variations field of a record the rows of the reference
\* record appear in their order, joined by <br>, and a row is wrapped in
\* <b>...</b> if and only if its genotype field is string-equal to the
\* normalized genotype.
C26_BoldIffMatching ==
    Ran => \A rec \in Records :
        LET rows == RowsOf(rec)
        IN  rec.Variations =
                Join(<<"<br>">>,
                     [i \in 1..Len(rows) |->
                         IF rows[i][1] = NormalizedOf(rec)
                         THEN Bold(Plain(rows[i])) ELSE Plain(rows[i])])

\* the second row is bolded for a genotype that was flipped onto it, the
\* first is not
C26_SecondRowBold ==
    /\ Ran
    /\ \E rec \in Records :
        /\ GenotypeOf(rec) = Pair("C", "C")
        /\ RowsOf(rec) = RowsRareOther
        /\ rec.Variations =
               Plain(RowsRareOther[1]) \o <<"<br>">>
                   \o Bold(Plain(RowsRareOther[2]))

\* the identifiers whose enrichment is due: in the personal store with a
\* genotype other than "(-;-)", in the reference store, and with a
\* reference entry that can be read
Due ==
    {k \in KeysOf(en_read[1].personal) :
        /\ EntryOf(en_read[1].personal, k).value # Pair("-", "-")
        /\ Lower(k) \in KeysOf(en_read[1].info)
        /\ IsDict(EntryOf(en_read[1].info, Lower(k)).value)}

\* C27: a run yields exactly one record for each identifier that is in both
\* stores with a genotype other than the sentinel and whose enrichment did
\* not fail; identifiers without reference data or with the sentinel
\* genotype are skipped, and a failure on one identifier costs no other
\* its record.
C27_OneRecordPerDueIdentifier ==
    Ran => /\ {rec.Name : rec \in Records} = Due
           /\ Len(en_rsid_list) = Cardinality(Due)

\* C28: a reference record without orientation information yields a record
\* (for a due identifier), with orientation "Old Data Format" and the
\* genotype as it was called, not flipped.
C28_OldDataFormat ==
    Ran => /\ \A rec \in Records :
                "StabilizedOrientation" \notin DOMAIN ReferenceOf(rec)
                    => /\ rec.StabilizedOrientation = "Old Data Format"
                       /\ rec.Genotype = GenotypeOf(rec)
           /\ \A k \in Due :
                "StabilizedOrientation"
                        \notin DOMAIN EntryOf(en_read[1].info, Lower(k)).value
                    => \E rec \in Records : rec.Name = k

\* C29: after every run the saved dataset is the list of records that run
\* computed, with at most one record per identifier.
C29_SavedIsLastRun ==
    Ran => /\ en_result_table = en_rsid_list
           /\ \A i, j \in 1..Len(en_result_table) :
                  en_result_table[i].Name = en_result_table[j].Name => i = j

(***************************************************************************)
(* Further properties of the crawl.                                        *)
(***************************************************************************)
\* C31: a concurrent worker releases its slot before its pacing sleep: a
\* worker that sits in the pacing sleep holds no slot, so the slots taken
\* are those of the workers that are fetching.
C31_PacingHoldsNoSlot ==
    mode = "async" =>
        MaxConcurrent(delay10) - sem =
            Cardinality({t \in Tasks : task[t].pc \in {"request", "backoff"}})

(***************************************************************************)
(* DataCache under threads.  A call is made by a thread that then waits    *)
(* for self._lock, runs the body of the method in the steps in which it    *)
(* reads and writes the shared fields, and leaves the `with` block.        *)
(* `x += 1` is a read of x followed by a write.                            *)
(***************************************************************************)
Threads == {"t1", "t2"}
ThreadKeys == {"k1", "k2"}
MaxSizes == {1, 2}
MaxCalls == 3
MaxThreadNow == 1

ThreadCalls ==
    {[op |-> "get", key |-> k, ttl |-> NoTtl] : k \in ThreadKeys}
    \cup {[op |-> "set", key |-> k, ttl |-> t] :
             k \in ThreadKeys, t \in {NoTtl, 0}}
    \cup {[op |-> "invalidate", key |-> "k1", ttl |-> NoTtl],
          [op |-> "clear", key |-> "", ttl |-> NoTtl],
          [op |-> "get_stats", key |-> "", ttl |-> NoTtl]}

NoCall == [op |-> "", key |-> "", ttl |-> NoTtl]
Resting == [pc |-> "idle", call |-> NoCall, local |-> 0]

\* a variant of the lock that lets every thread in
LockIgnored(l) == TRUE

\* threading.Lock: free for the taking
LockAvailable(l) == l = ""

ThreadFrame ==
    UNCHANGED << crawlVars, cacheVars, pageVars, flipVars, parseVars,
                 enrichVars, lazyVars >>

Goto(th, pc) == th_pc' = [th_pc EXCEPT ![th].pc = pc]
GotoWith(th, pc, v) == th_pc' = [th_pc EXCEPT ![th].pc = pc, ![th].local = v]

\* a thread calls a method of the cache
Call(th, c) ==
    /\ th_pc[th].pc = "idle"
    /\ th_calls < MaxCalls
    /\ th_pc' = [th_pc EXCEPT ![th] = [pc |-> "waiting", call |-> c,
                                       local |-> 0]]
    /\ th_calls' = th_calls + 1
    /\ UNCHANGED << th_max, th_cache, th_hits, th_misses, th_lock, th_now,
                    th_gets, th_stats >>
    /\ ThreadFrame

\* `with self._lock:` entered
Acquire(th) ==
    /\ th_pc[th].pc = "waiting"
    /\ LockAvailable(th_lock)
    /\ th_lock' = th
    /\ Goto(th, th_pc[th].call.op)
    /\ UNCHANGED << th_max, th_cache, th_hits, th_misses, th_calls, th_now,
                    th_gets, th_stats >>
    /\ ThreadFrame

\* get: the lookup and the expiry test, up to the read of the counter
GetLookup(th) ==
    /\ th_pc[th].pc = "get"
    /\ LET k == th_pc[th].call.key
       IN  IF k \notin KeysOf(th_cache)
           THEN GotoWith(th, "miss", th_misses) /\ UNCHANGED th_cache
           ELSE IF IsExpired(EntryOf(th_cache, k), th_now)
           THEN GotoWith(th, "miss", th_misses)
                /\ th_cache' = Del(th_cache, k)
           ELSE GotoWith(th, "hit", th_hits) /\ UNCHANGED th_cache
    /\ UNCHANGED << th_max, th_hits, th_misses, th_lock, th_calls, th_now,
                    th_gets, th_stats >>
    /\ ThreadFrame

\* get: self._misses += 1 written; return None
GetMiss(th) ==
    /\ th_pc[th].pc = "miss"
    /\ th_misses' = th_pc[th].local + 1
    /\ Goto(th, "release")
    /\ UNCHANGED << th_max, th_cache, th_hits, th_lock, th_calls, th_now,
                    th_gets, th_stats >>
    /\ ThreadFrame

\* get: self._hits += 1 written; return entry.access()
GetHit(th) ==
    /\ th_pc[th].pc = "hit"
    /\ th_hits' = th_pc[th].local + 1
    /\ LET k == th_pc[th].call.key
       IN  th_cache' = IF k \in KeysOf(th_cache)
                       THEN [th_cache EXCEPT
                               ![IndexOf(th_cache, k)].access_count = @ + 1]
                       ELSE th_cache
    /\ Goto(th, "release")
    /\ UNCHANGED << th_max, th_misses, th_lock, th_calls, th_now, th_gets,
                    th_stats >>
    /\ ThreadFrame

\* set: the eviction
SetEvict(th) ==
    /\ th_pc[th].pc = "set"
    /\ IF Len(th_cache) >= th_max
          /\ th_pc[th].call.key \notin KeysOf(th_cache)
       THEN th_cache' = EvictLru(th_cache) /\ GotoWith(th, "assign", 1)
       ELSE th_cache' = th_cache /\ GotoWith(th, "assign", 0)
    /\ UNCHANGED << th_max, th_hits, th_misses, th_lock, th_calls, th_now,
                    th_gets, th_stats >>
    /\ ThreadFrame

\* set: self._cache[key] = CacheEntry(data, ttl)
SetAssign(th) ==
    /\ th_pc[th].pc = "assign"
    /\ LET c == th_pc[th].call
           ttl == IF c.ttl # NoTtl THEN c.ttl ELSE CACHE_TTL
       IN  th_cache' = Assign(th_cache, c.key,
                              CacheEntry(c.key, th, ttl, th_now))
    /\ Goto(th, "release")
    /\ UNCHANGED << th_max, th_hits, th_misses, th_lock, th_calls, th_now,
                    th_gets, th_stats >>
    /\ ThreadFrame

\* invalidate
InvalidateDel(th) ==
    /\ th_pc[th].pc = "invalidate"
    /\ th_cache' = InvalidateKey(th_cache, th_pc[th].call.key)
    /\ Goto(th, "release")
    /\ UNCHANGED << th_max, th_hits, th_misses, th_lock, th_calls, th_now,
                    th_gets, th_stats >>
    /\ ThreadFrame

\* clear: self._cache.clear()
ClearMap(th) ==
    /\ th_pc[th].pc = "clear"
    /\ th_cache' = <<>>
    /\ Goto(th, "clear_hits")
    /\ UNCHANGED << th_max, th_hits, th_misses, th_lock, th_calls, th_now,
                    th_gets, th_stats >>
    /\ ThreadFrame

\* clear: self._hits = 0
ClearHits(th) ==
    /\ th_pc[th].pc = "clear_hits"
    /\ th_hits' = ResetCounter(th_hits)
    /\ Goto(th, "clear_misses")
    /\ UNCHANGED << th_max, th_cache, th_misses, th_lock, th_calls, th_now,
                    th_gets, th_stats >>
    /\ ThreadFrame

\* clear: self._misses = 0
ClearMisses(th) ==
    /\ th_pc[th].pc = "clear_misses"
    /\ th_misses' = ResetCounter(th_misses)
    /\ Goto(th, "release")
    /\ UNCHANGED << th_max, th_cache, th_hits, th_lock, th_calls, th_now,
                    th_gets, th_stats >>
    /\ ThreadFrame

\* get_stats: total_requests = self._hits + self._misses
StatsTotal(th) ==
    /\ th_pc[th].pc = "get_stats"
    /\ GotoWith(th, "stats_dict", th_hits + th_misses)
    /\ UNCHANGED << th_max, th_cache, th_hits, th_misses, th_lock, th_calls,
                    th_now, th_gets, th_stats >>
    /\ ThreadFrame

\* get_stats: the dict is built and returned
StatsDict(th) ==
    /\ th_pc[th].pc = "stats_dict"
    /\ th_stats' =
         << [ret |-> [size |-> Len(th_cache), max_size |-> th_max,
                      hits |-> th_hits, misses |-> th_misses,
                      total_requests |-> th_pc[th].local],
             gets |-> th_gets] >>
    /\ Goto(th, "release")
    /\ UNCHANGED << th_max, th_cache, th_hits, th_misses, th_lock, th_calls,
                    th_now, th_gets >>
    /\ ThreadFrame

\* the `with` block is left and the call returns
ReleaseLock(th) ==
    /\ th_pc[th].pc = "release"
    /\ th_lock' = ""
    /\ th_gets' = CASE th_pc[th].call.op = "get" -> th_gets + 1
                    [] th_pc[th].call.op = "clear" -> 0
                    [] OTHER -> th_gets
    /\ th_pc' = [th_pc EXCEPT ![th] = Resting]
    /\ UNCHANGED << th_max, th_cache, th_hits, th_misses, th_calls, th_now,
                    th_stats >>
    /\ ThreadFrame

\* a second passes
ThreadTick ==
    /\ th_now < MaxThreadNow
    /\ th_now' = th_now + 1
    /\ UNCHANGED << th_max, th_cache, th_hits, th_misses, th_lock, th_pc,
                    th_calls, th_gets, th_stats >>
    /\ ThreadFrame

InitThreads ==
    /\ th_max \in MaxSizes
    /\ th_cache = <<>> /\ th_hits = 0 /\ th_misses = 0
    /\ th_lock = ""
    /\ th_pc = [th \in Threads |-> Resting]
    /\ th_calls = 0
    /\ th_now = 0 /\ th_gets = 0 /\ th_stats = <<>>
    /\ CrawlIdle /\ CacheIdle /\ PageIdle /\ FlipIdle /\ ParseIdle
    /\ EnrichIdle /\ LazyIdle

NextThreads ==
    \/ \E th \in Threads, c \in ThreadCalls : Call(th, c)
    \/ \E th \in Threads : Acquire(th)
    \/ \E th \in Threads : GetLookup(th)
    \/ \E th \in Threads : GetMiss(th)
    \/ \E th \in Threads : GetHit(th)
    \/ \E th \in Threads : SetEvict(th)
    \/ \E th \in Threads : SetAssign(th)
    \/ \E th \in Threads : InvalidateDel(th)
    \/ \E th \in Threads : ClearMap(th)
    \/ \E th \in Threads : ClearHits(th)
    \/ \E th \in Threads : ClearMisses(th)
    \/ \E th \in Threads : StatsTotal(th)
    \/ \E th \in Threads : StatsDict(th)
    \/ \E th \in Threads : ReleaseLock(th)
    \/ ThreadTick

SpecThreads == InitThreads /\ [][NextThreads]_vars

(* Properties of the cache under threads. *)
InCall == {th \in Threads : th_pc[th].pc \notin {"idle", "waiting"}}
Entering == {th \in Threads :
                th_pc[th].pc \in {"get", "set", "invalidate", "clear",
                                  "get_stats"}}

\* C32: under any interleaving of get, set, invalidate, clear and stats
\* calls from several threads each call is atomic: at most one thread is
\* inside a method body; whenever no call is in progress, and whenever a
\* call starts to read the cache, hits + misses equals the number of get
\* calls completed since the last clear and the map holds no more than
\* max_size entries with distinct keys; and the statistics returned are
\* those of one moment (total = hits + misses = completed gets).
C32_CallsAtomic ==
    /\ Cardinality(InCall) <= 1
    /\ (InCall = {} \/ Entering # {}) =>
          /\ th_hits + th_misses = th_gets
          /\ Cardinality(KeysOf(th_cache)) = Len(th_cache)
    /\ \A i \in 1..Len(th_stats) :
          /\ th_stats[i].ret.total_requests
                = th_stats[i].ret.hits + th_stats[i].ret.misses
          /\ th_stats[i].ret.total_requests = th_stats[i].gets

\* two threads contend: one is between the read and the write of a counter
\* while the other waits for the lock, after a get has completed
C32_Contended ==
    /\ th_gets >= 1
    /\ \E a, b \in Threads :
          /\ th_pc[a].pc \in {"hit", "miss"}
          /\ th_pc[b].pc = "waiting" /\ th_pc[b].call.op = "get"

\* C38: with max_size >= 1 the number of stored entries never exceeds
\* max_size, whatever calls were made.
C38_SizeBounded == th_max >= 1 => Len(th_cache) <= th_max

\* a set into a full cache has evicted an entry and stored its own
C38_EvictedAndStored ==
    \E th \in Threads :
        /\ th_pc[th].pc = "release" /\ th_pc[th].call.op = "set"
        /\ th_pc[th].local = 1
        /\ Len(th_cache) = th_max

(***************************************************************************)
(* load_json_lazy and invalidate_cache for one file.  The file's content   *)
(* is the number of times it has been rewritten.  The cache calls are      *)
(* atomic (each holds the cache's lock); the steps of load_json_lazy       *)
(* between them are not.                                                   *)
(***************************************************************************)
Loaders == {"l1", "l2"}
MaxWrites == 2
NoVersion == -1

LoaderResting ==
    [pc |-> "idle", use_cache |-> TRUE, data |-> NoVersion,
     ret |-> NoVersion, start |-> NoVersion]

LazyFrame ==
    UNCHANGED << crawlVars, cacheVars, pageVars, flipVars, parseVars,
                 enrichVars, threadVars >>

\* load_json_lazy(file, use_cache) is called; `start` is the content the
\* file has if no rewrite is under way, for the properties
LoadStart(l, uc) ==
    /\ lz_pc[l].pc \in {"idle", "returned"}
    /\ lz_pc' = [lz_pc EXCEPT ![l] =
                   [pc |-> IF uc THEN "get" ELSE "read", use_cache |-> uc,
                    data |-> NoVersion, ret |-> NoVersion,
                    start |-> IF lz_writer = "idle" THEN lz_file
                              ELSE NoVersion]]
    /\ UNCHANGED << lz_file, lz_cache, lz_writer >>
    /\ LazyFrame

\* cached_data = _data_cache.get(cache_key); returned when not None
LoadGet(l) ==
    /\ lz_pc[l].pc = "get"
    /\ lz_pc' = IF lz_cache # <<>>
                THEN [lz_pc EXCEPT ![l].pc = "returned",
                                   ![l].ret = lz_cache[1]]
                ELSE [lz_pc EXCEPT ![l].pc = "read"]
    /\ UNCHANGED << lz_file, lz_cache, lz_writer >>
    /\ LazyFrame

\* data = json.load(f)
LoadRead(l) ==
    /\ lz_pc[l].pc = "read"
    /\ lz_pc' = IF lz_pc[l].use_cache
                THEN [lz_pc EXCEPT ![l].pc = "set", ![l].data = lz_file]
                ELSE [lz_pc EXCEPT ![l].pc = "returned",
                                   ![l].data = lz_file, ![l].ret = lz_file]
    /\ UNCHANGED << lz_file, lz_cache, lz_writer >>
    /\ LazyFrame

\* _data_cache.set(cache_key, data); return data
LoadSet(l) ==
    /\ lz_pc[l].pc = "set"
    /\ lz_cache' = << lz_pc[l].data >>
    /\ lz_pc' = [lz_pc EXCEPT ![l].pc = "returned", ![l].ret = lz_pc[l].data]
    /\ UNCHANGED << lz_file, lz_writer >>
    /\ LazyFrame

\* the file is rewritten
Rewrite ==
    /\ lz_writer = "idle"
    /\ lz_file < MaxWrites
    /\ lz_file' = lz_file + 1
    /\ lz_writer' = "rewritten"
    /\ UNCHANGED << lz_cache, lz_pc >>
    /\ LazyFrame

\* invalidate_cache(file) runs and returns
InvalidateCache ==
    /\ lz_writer = "rewritten"
    /\ lz_cache' = <<>>
    /\ lz_writer' = "idle"
    /\ UNCHANGED << lz_file, lz_pc >>
    /\ LazyFrame

InitLazy ==
    /\ lz_file = 0 /\ lz_cache = <<>>
    /\ lz_pc = [l \in Loaders |-> LoaderResting]
    /\ lz_writer = "idle"
    /\ CrawlIdle /\ CacheIdle /\ PageIdle /\ FlipIdle /\ ParseIdle
    /\ EnrichIdle /\ ThreadIdle

NextLazy ==
    \/ \E l \in Loaders, uc \in BOOLEAN : LoadStart(l, uc)
    \/ \E l \in Loaders : LoadGet(l)
    \/ \E l \in Loaders : LoadRead(l)
    \/ \E l \in Loaders : LoadSet(l)
    \/ Rewrite
    \/ InvalidateCache

SpecLazy == InitLazy /\ [][NextLazy]_vars

(* Properties of the lazy loader. *)
\* C39: a load_json_lazy that starts after the file was rewritten and
\* invalidate_cache returned gives back content at least as new as the file
\* had when it started, whatever other loads of the file are under way.
C39_FreshAfterInvalidate ==
    \A l \in Loaders :
        (lz_pc[l].pc = "returned" /\ lz_pc[l].start # NoVersion) =>
            lz_pc[l].ret >= lz_pc[l].start

(***************************************************************************)
(* The crawl under a fair scheduler.  The event loop runs every task that  *)
(* is ready, a sleep ends, a request ends with a response or with its      *)
(* timeout (status 0), and a write to the disk ends in success or in an    *)
(* OSError: whatever step is enabled is eventually taken.  The process is  *)
(* not killed.                                                             *)
(***************************************************************************)
LivePersonals == {<<"rs1", "rs2">>, <<"Rs3", "rs1">>}

LiveStores == {StoreOf({}), StoreOf({"rs1"})}

InitLive == InitWith(LivePersonals, LiveStores, {10}, Nets, CrawlPages,
                     {Unscripted}, {"service", "legacy"}, {"async", "sync"})

NextLive ==
    \/ \E t \in Tasks : FetchRsidWithSemaphore(t)
    \/ \E t \in Tasks : SyncStart(t)
    \/ \E t \in Tasks : Response(t)
    \/ \E t \in Tasks : Retry(t)
    \/ \E t \in Tasks : Release(t)
    \/ \E t \in Tasks : AsyncComplete(t)
    \/ \E t \in Tasks : SyncComplete(t)
    \/ CrawlReturn
    \/ ExportOpen
    \/ ExportDump
    \/ ExportReplace
    \/ ExportFail

SpecLive == InitLive /\ [][NextLive]_vars /\ WF_vars(NextLive)

\* C33: a crawl over a finite identifier set terminates with every
\* identifier processed (completed = total), whatever fetches failed, were
\* abandoned or met a page that does not parse, and with every slot given
\* back.
C33_CrawlTerminates ==
    <>(/\ pc_main = "returned"
       /\ completed = Len(rsids)
       /\ \A t \in Tasks : task[t].pc = "counted"
       /\ sem = MaxConcurrent(delay10))

\* a concurrent crawl has returned after one fetch was abandoned and
\* another identifier was fetched and stored
C33_ReturnedAfterAbandon ==
    /\ pc_main = "returned" /\ mode = "async"
    /\ completed = Len(rsids)
    /\ \E t, u \in Tasks :
          /\ task[t].result = "abandoned"
          /\ task[u].result = "stored"
    /\ sem = MaxConcurrent(delay10)

(***************************************************************************)
(* Checkpoints that fail: a crawl of four new identifiers, long enough for *)
(* two checkpoints, on a disk whose writes may fail, under the same fair   *)
(* scheduler.  The server answers every request with a page or with 404,   *)
(* so that no fetch is retried.                                            *)
(***************************************************************************)
CkptStatuses == {200, 404}

InitCkpt == InitWith(PoolPersonals, {StoreOf({})}, {10}, {CkptStatuses},
                     {PageBare}, {Unscripted}, {"service", "legacy"},
                     {"async", "sync"})

NextCkpt ==
    \/ \E t \in Tasks : FetchRsidWithSemaphore(t)
    \/ \E t \in Tasks : SyncStart(t)
    \/ \E t \in Tasks : Response(t)
    \/ \E t \in Tasks : Release(t)
    \/ \E t \in Tasks : AsyncComplete(t)
    \/ \E t \in Tasks : SyncComplete(t)
    \/ CrawlReturn
    \/ ExportOpen
    \/ ExportDump
    \/ ExportReplace
    \/ ExportFail

SpecCkpt == InitCkpt /\ [][NextCkpt]_vars /\ WF_vars(NextCkpt)

\* C34: when a checkpoint write fails the in-memory store is unchanged and
\* results.json keeps the complete content it had; the crawl goes on to
\* process every identifier and return; and the next checkpoint that falls
\* due is attempted.
C34_FailedCheckpointHarmless ==
    /\ [][ExportFail =>
            /\ rsid_info' = rsid_info
            /\ disk' = disk /\ disk'.st = "complete"
            /\ disk'.data = (IF nCkpt = 0 THEN disk0 ELSE lastCkpt)]_vars
    /\ writeFailed ~> (pc_main = "returned" /\ completed = Len(rsids))
    /\ (writeFailed /\ pc_main = "run"
            /\ completed = SAVE_PROGRESS_INTERVAL)
          ~> (Exporting /\ completed = 2 * SAVE_PROGRESS_INTERVAL)

\* the first checkpoint failed, the crawl went on, and the second one is
\* about to be written with more records than the first had
C34_SecondCheckpointAttempted ==
    /\ writeFailed /\ nCkpt = 0
    /\ pc_main = "export"
    /\ completed = 2 * SAVE_PROGRESS_INTERVAL
    /\ Cardinality(DOMAIN rsid_info) >= 3
    /\ disk = FileOf(disk0)

\* C35: identifier membership is case-insensitive: the crawl issues no
\* request for an identifier whose lower-case form was a key of the
\* reference store when it started and leaves that record as it was, and
\* every record it adds is stored under a lower-case key.
C35_MembershipIgnoresCase ==
    /\ \A t \in Tasks :
          Lower(rsids[t]) \in DOMAIN disk0 =>
              /\ task[t].nreq = 0
              /\ rsid_info[Lower(rsids[t])] = disk0[Lower(rsids[t])]
    /\ \A k \in DOMAIN rsid_info : k \notin DOMAIN disk0 => k = Lower(k)

(* Further properties of the page parser. *)
\* the data rows of a table with content: what follows its header row
DataRows(tb) == TableToList(DropFirst(tb.rows))

\* C36: for a sortable table made of a header row followed by data rows,
\* Variations holds, in order, the non-empty cell texts of every data row
\* that has a non-empty cell: no such row is lost.
C36_VariationsKeepDataRows ==
    (ps_out # <<>> /\ ps_out[1].returned # <<>>
        /\ ps_page.table.found /\ ps_page.table.rows # <<>>) =>
        ps_out[1].returned[1].Variations = DataRows(ps_page.table)

\* the orientation a parser leaves in the record of the page parsed
OrientationBy(i) ==
    ParsePage(i, ps_rsid, ps_page).store[Lower(ps_rsid)].StabilizedOrientation

\* C37: for the same page the two parsers yield the same orientation,
\* whichever of a "plus" and a "minus" cell stand in the structure that
\* encloses the marker or the titled link, both of them included.
C37_ParsersAgreeOnOrientation ==
    (ps_out # <<>> /\ ~ParsePage("legacy", ps_rsid, ps_page).raised) =>
        OrientationBy("service") = OrientationBy("legacy")

(* Further properties of pagination. *)
\* the data of pages 1, 2, ..., n of a collection, one after the other
RECURSIVE PagesThrough(_, _, _)
PagesThrough(data, page_size, n) ==
    IF n = 0 THEN <<>>
    ELSE PagesThrough(data, page_size, n - 1)
         \o LoadJsonPaginated(data, n, page_size).data

\* C40: for a cached collection and page_size >= 1, the data of pages 1 to
\* total_pages, one after the other, are the items of the collection, each
\* once and in their order.
C40_PagesPartitionCollection ==
    (pg_out # <<>> /\ pg_data.kind \in {"list", "dict"} /\ pg_size >= 1) =>
        PagesThrough(pg_data, pg_size, pg_out[1].total_pages)
            = pg_data.items

\* a collection that takes three pages, the last of them not full
C40_ThreePagesLastPartial ==
    /\ pg_out # <<>> /\ pg_data.kind = "list"
    /\ pg_out[1].total_pages = 3
    /\ Len(pg_data.items) % pg_size # 0
    /\ Len(LoadJsonPaginated(pg_data, 3, pg_size).data) < pg_size

=============================================================================
